---- MODULE Spec2Model ----
(***************************************************************************)
(* xray-react: the render-tree walker, the project classifier, the         *)
(* hierarchy path builder (src/src/constants.js) and the source extractor  *)
(* (src/lib/source-utils.js), as state machines.                           *)
(*                                                                         *)
(* A JavaScript string is a sequence of one-character strings, so that     *)
(* toLowerCase, startsWith, includes, split, join and the regular          *)
(* expressions of the source are computed character by character.          *)
(* JavaScript null/undefined is the value Null.                            *)
(***************************************************************************)
EXTENDS Integers, Sequences, FiniteSets, TLC

(***************************************************************************)
(* Bounds of the model.                                                    *)
(***************************************************************************)
\* longest parent/owner chain of a render tree handed to the walker
MaxFibers == 3
\* largest explicit maxDepth argument tried besides the default
MaxDepthArg == 2
\* most DOM ancestors scanned by the DOM fallback of the path builder
MaxAncestors == 2
\* most statements in a source file handed to the extractor
MaxStmts == 2
\* the largest number of times the overlay is toggled on
MaxActivations == 2
\* the largest number of messages the page has emitted and the server has
\* not yet taken
MaxEmitted == 1
\* the largest number of candidates register-source grows a name's list to
MaxCandidates == 2
\* the largest number of detections of the project root pending at a time
MaxDetections == 2

(***************************************************************************)
(* Strings.                                                                *)
(***************************************************************************)
Null == <<"<null>">>

\* JavaScript truthiness of a string-or-null value
Truthy(s) == s # Null /\ s # <<>>

UpperToLower ==
  "A" :> "a" @@ "B" :> "b" @@ "C" :> "c" @@ "D" :> "d" @@ "E" :> "e" @@ "F" :> "f" @@ "G" :> "g"
  @@  "H" :> "h" @@ "I" :> "i" @@ "J" :> "j" @@ "K" :> "k" @@ "L" :> "l" @@ "M" :> "m" @@ "N" :> "n"
  @@  "O" :> "o" @@ "P" :> "p" @@ "Q" :> "q" @@ "R" :> "r" @@ "S" :> "s" @@ "T" :> "t" @@ "U" :> "u"
  @@  "V" :> "v" @@ "W" :> "w" @@ "X" :> "x" @@ "Y" :> "y" @@ "Z" :> "z"

LowerChar(c) == IF c \in DOMAIN UpperToLower THEN UpperToLower[c] ELSE c

\* String.prototype.toLowerCase
ToLowerCase(s) == [i \in 1..Len(s) |-> LowerChar(s[i])]

\* String.prototype.startsWith / endsWith / includes
StartsWith(s, p) == Len(p) <= Len(s) /\ SubSeq(s, 1, Len(p)) = p

EndsWith(s, p) == Len(p) <= Len(s) /\ SubSeq(s, Len(s) - Len(p) + 1, Len(s)) = p

Includes(s, p) == \E i \in 1..(Len(s) - Len(p) + 1) : SubSeq(s, i, i + Len(p) - 1) = p

\* Array.prototype.join
RECURSIVE Join(_, _)
Join(names, sep) ==
  IF names = <<>> THEN <<>>
  ELSE IF Len(names) = 1 THEN names[1]
  ELSE names[1] \o sep \o Join(Tail(names), sep)

\* String.prototype.split on any one of the characters seps
RECURSIVE SplitFrom(_, _, _, _)
SplitFrom(s, seps, i, cur) ==
  IF i > Len(s) THEN <<cur>>
  ELSE IF s[i] \in seps THEN <<cur>> \o SplitFrom(s, seps, i + 1, <<>>)
  ELSE SplitFrom(s, seps, i + 1, Append(cur, s[i]))

Split(s, seps) == SplitFrom(s, seps, 1, <<>>)

\* Array.prototype.reverse (as a new array)
Reverse(q) == [i \in 1..Len(q) |-> q[Len(q) + 1 - i]]

Letters == DOMAIN UpperToLower \cup {UpperToLower[c] : c \in DOMAIN UpperToLower}

\* the string literals of the sources
Literals ==
  [
    arrow |-> <<" ", "-", ">", " ">>,
    node_modules |-> <<"n", "o", "d", "e", "_", "m", "o", "d", "u", "l", "e", "s">>,
    Anonymous |-> <<"A", "n", "o", "n", "y", "m", "o", "u", "s">>,
    Unknown |-> <<"U", "n", "k", "n", "o", "w", "n">>,
    export |-> <<"e", "x", "p", "o", "r", "t">>,
    default |-> <<"d", "e", "f", "a", "u", "l", "t">>,
    function |-> <<"f", "u", "n", "c", "t", "i", "o", "n">>,
    const |-> <<"c", "o", "n", "s", "t">>,
    let |-> <<"l", "e", "t">>,
    var |-> <<"v", "a", "r">>,
    class |-> <<"c", "l", "a", "s", "s">>,
    ReactMemo |-> <<"R", "e", "a", "c", "t", ".", "m", "e", "m", "o">>,
    ReactForwardRef |-> <<"R", "e", "a", "c", "t", ".", "f", "o", "r", "w", "a", "r", "d", "R", "e", "f">>
  ]

\* component names, tag names and identifiers met in render trees and in
\* source texts
Names ==
  [
    Card |-> <<"C", "a", "r", "d">>,
    card |-> <<"c", "a", "r", "d">>,
    Tooltip |-> <<"T", "o", "o", "l", "t", "i", "p">>,
    Modal |-> <<"M", "o", "d", "a", "l">>,
    Widget |-> <<"W", "i", "d", "g", "e", "t">>,
    DIV |-> <<"D", "I", "V">>,
    div |-> <<"d", "i", "v">>,
    Foo |-> <<"F", "o", "o">>,
    Bar |-> <<"B", "a", "r">>,
    Baz |-> <<"B", "a", "z">>,
    props |-> <<"p", "r", "o", "p", "s">>,
    Header |-> <<"H", "e", "a", "d", "e", "r">>,
    Nav |-> <<"N", "a", "v">>,
    Page |-> <<"P", "a", "g", "e">>,
    Footer |-> <<"F", "o", "o", "t", "e", "r">>
  ]

\* file paths as the host runtime reports them in _debugSource.fileName or
\* as the collaborator sends them, and project roots
Paths ==
  [
    Card |-> <<"/", "a", "p", "p", "/", "s", "r", "c", "/", "C", "a", "r", "d", ".", "t", "s", "x">>,
    Tooltip |-> <<"/", "a", "p", "p", "/", "n", "o", "d", "e", "_", "m", "o", "d", "u", "l", "e", "s", "/", "u", "i", "/", "T", "o", "o", "l", "t", "i", "p", ".", "j", "s">>,
    Widget |-> <<"/", "o", "t", "h", "e", "r", "/", "l", "i", "b", "/", "W", "i", "d", "g", "e", "t", ".", "t", "s", "x">>,
    Grid |-> <<"C", ":", "\\", "l", "i", "b", "\\", "G", "r", "i", "d", ".", "t", "s", "x">>,
    Menu |-> <<"s", "r", "c", "/", "M", "e", "n", "u", ".", "j", "s", "x">>,
    Modal |-> <<"/", "a", "p", "p", "/", "s", "r", "c", "/", "m", "o", "d", "a", "l", "/", "i", "n", "d", "e", "x", ".", "t", "s">>,
    app |-> <<"/", "a", "p", "p">>,
    slash |-> <<"/">>,
    CardTest |-> <<"/", "a", "p", "p", "/", "s", "r", "c", "/", "C", "a", "r", "d", ".", "t", "e", "s", "t", ".", "t", "s", "x">>,
    a |-> <<"/", "a", "p", "p", "/", "s", "r", "c", "/", "a", ".", "j", "s">>,
    CardNav |-> <<"/", "a", "p", "p", "/", "s", "r", "c", "/", "n", "a", "v", "/", "C", "a", "r", "d", ".", "t", "s", "x">>,
    CardFooter |-> <<"/", "a", "p", "p", "/", "s", "r", "c", "/", "f", "o", "o", "t", "e", "r", "/", "C", "a", "r", "d", ".", "t", "s", "x">>,
    CardFooterJs |-> <<"/", "a", "p", "p", "/", "s", "r", "c", "/", "f", "o", "o", "t", "e", "r", "/", "C", "a", "r", "d", ".", "j", "s">>,
    CardGone |-> <<"/", "a", "p", "p", "/", "s", "r", "c", "/", "g", "o", "n", "e", "/", "C", "a", "r", "d", ".", "j", "s", "x">>,
    CardNavTest |-> <<"/", "a", "p", "p", "/", "s", "r", "c", "/", "n", "a", "v", "/", "C", "a", "r", "d", ".", "t", "e", "s", "t", ".", "t", "s", "x">>,
    Page |-> <<"/", "a", "p", "p", "/", "s", "r", "c", "/", "P", "a", "g", "e", ".", "t", "s", "x">>,
    HeaderNav |-> <<"/", "a", "p", "p", "/", "s", "r", "c", "/", "n", "a", "v", "/", "H", "e", "a", "d", "e", "r", ".", "t", "s", "x">>,
    HeaderFooter |-> <<"/", "a", "p", "p", "/", "s", "r", "c", "/", "f", "o", "o", "t", "e", "r", "/", "H", "e", "a", "d", "e", "r", ".", "t", "s", "x">>
  ]

(***************************************************************************)
(* Program constants.                                                      *)
(***************************************************************************)
HTML_ELEMENTS ==
  { <<"d", "i", "v">>, <<"s", "p", "a", "n">>, <<"f", "o", "r", "m">>,
    <<"b", "u", "t", "t", "o", "n">>, <<"i", "n", "p", "u", "t">>, <<"a">>, <<"i", "m", "g">>,
    <<"p">>, <<"h", "1">>, <<"h", "2">>, <<"h", "3">>, <<"h", "4">>, <<"h", "5">>,
    <<"h", "6">>, <<"u", "l">>, <<"l", "i">>, <<"o", "l">>, <<"t", "a", "b", "l", "e">>,
    <<"t", "r">>, <<"t", "d">>, <<"t", "h">>, <<"t", "h", "e", "a", "d">>,
    <<"t", "b", "o", "d", "y">>, <<"t", "f", "o", "o", "t">>,
    <<"s", "e", "c", "t", "i", "o", "n">>, <<"a", "r", "t", "i", "c", "l", "e">>,
    <<"h", "e", "a", "d", "e", "r">>, <<"f", "o", "o", "t", "e", "r">>, <<"n", "a", "v">>,
    <<"m", "a", "i", "n">>, <<"a", "s", "i", "d", "e">>, <<"l", "a", "b", "e", "l">>,
    <<"s", "e", "l", "e", "c", "t">>, <<"o", "p", "t", "i", "o", "n">>,
    <<"t", "e", "x", "t", "a", "r", "e", "a">>, <<"f", "i", "e", "l", "d", "s", "e", "t">>,
    <<"l", "e", "g", "e", "n", "d">>, <<"b", "r">>, <<"h", "r">>,
    <<"s", "t", "r", "o", "n", "g">>, <<"e", "m">>, <<"b">>, <<"i">>, <<"u">>,
    <<"s", "m", "a", "l", "l">>, <<"s", "u", "b">>, <<"s", "u", "p">>, <<"d", "l">>,
    <<"d", "t">>, <<"d", "d">>, <<"p", "r", "e">>, <<"c", "o", "d", "e">>,
    <<"b", "l", "o", "c", "k", "q", "u", "o", "t", "e">>, <<"c", "i", "t", "e">>,
    <<"c", "a", "n", "v", "a", "s">>, <<"s", "v", "g">>, <<"p", "a", "t", "h">>,
    <<"c", "i", "r", "c", "l", "e">>, <<"r", "e", "c", "t">>, <<"l", "i", "n", "e">>,
    <<"p", "o", "l", "y", "l", "i", "n", "e">>, <<"p", "o", "l", "y", "g", "o", "n">>,
    <<"i", "f", "r", "a", "m", "e">>, <<"e", "m", "b", "e", "d">>,
    <<"o", "b", "j", "e", "c", "t">>, <<"v", "i", "d", "e", "o">>, <<"a", "u", "d", "i", "o">>,
    <<"s", "o", "u", "r", "c", "e">>, <<"t", "r", "a", "c", "k">>, <<"m", "e", "t", "a">>,
    <<"l", "i", "n", "k">>, <<"s", "t", "y", "l", "e">>, <<"s", "c", "r", "i", "p", "t">>,
    <<"n", "o", "s", "c", "r", "i", "p", "t">>, <<"t", "e", "m", "p", "l", "a", "t", "e">> }

\* the number of elements processBatch handles per callback, and of overlays
\* processPaths handles per callback
batchSize == 20

pathBatchSize == 10

MAX_FIBER_DEPTH == 50

\* EXTERNAL_PATTERNS: /node_modules/i and /<dir>[\/\\]/i for the marker
\* directories; each is tested as "the text includes <dir> followed by / or \"
EXTERNAL_DIR_MARKERS ==
  { <<".", "n", "e", "x", "t">>, <<"d", "i", "s", "t">>, <<"b", "u", "i", "l", "d">>,
    <<".", "g", "i", "t">>, <<".", "c", "a", "c", "h", "e">>,
    <<"c", "o", "v", "e", "r", "a", "g", "e">> }

MatchesExternalPattern(text) ==
  LET t == ToLowerCase(text)
  IN  \/ Includes(t, Literals.node_modules)
      \/ \E d \in EXTERNAL_DIR_MARKERS :
           Includes(t, Append(d, "/")) \/ Includes(t, Append(d, "\\"))

\* the regular expression /\.(tsx?|jsx?)$/ : the text it matches at the end
\* of s, or <<>> when it does not match
SourceExtAt(s) ==
  IF EndsWith(s, <<".", "t", "s", "x">>) THEN <<".", "t", "s", "x">>
  ELSE IF EndsWith(s, <<".", "j", "s", "x">>) THEN <<".", "j", "s", "x">>
  ELSE IF EndsWith(s, <<".", "t", "s">>) THEN <<".", "t", "s">>
  ELSE IF EndsWith(s, <<".", "j", "s">>) THEN <<".", "j", "s">>
  ELSE <<>>

\* s.replace(/\.(tsx?|jsx?)$/, '')
StripSourceExt(s) == SubSeq(s, 1, Len(s) - Len(SourceExtAt(s)))

(***************************************************************************)
(* Process-wide state of the render-side module (constants.js 30-37), the  *)
(* window globals it falls back to, and the objects its calls work on.     *)
(***************************************************************************)
VARIABLES
  projectRoot,                 \* string or Null
  usageMap,                    \* file path -> array of names
  importMap,                   \* file path -> array of names
  projectFilePaths,            \* set of file paths
  normalizedProjectFilePaths,  \* set of normalized paths
  componentNameToFilesIndex,   \* token -> set of file paths
  normalizePathCache,          \* memo of normalizePath: input -> output
  window,                      \* the __XRAY_REACT_*__ globals
  devtoolsHook,                \* whether window.__REACT_DEVTOOLS_GLOBAL_HOOK__ is set
  domElem,                     \* the DOM element at hand and the render tree behind it
  xrayReactElem,               \* the overlay of domElem: its name and path attributes
  sourceFile,                  \* the file handed to the source extractor
  sources,                     \* server: component name -> candidates
  fileSystem,                  \* server: the source files on disk
  opened,                      \* server: the files handed to openFile
  currentMode,                 \* render side: 'full' or 'simple'
  windowMode,                  \* window.__XRAY_REACT_MODE__
  document,                    \* body class, wrapper, action bar, page elements
  timers,                      \* callbacks scheduled with setTimeout
  clientIO,                    \* the socket of the page and what it emitted
  last                         \* the last call made and what it returned

(***************************************************************************)
(* JavaScript objects used as maps are sets of <<key, value>> pairs with   *)
(* one pair per key.                                                       *)
(***************************************************************************)
MapKeys(m) == {e[1] : e \in m}

MapHas(m, k) == \E e \in m : e[1] = k

MapGet(m, k) == (CHOOSE e \in m : e[1] = k)[2]

MapPut(m, k, v) == {e \in m : e[1] # k} \cup {<<k, v>>}

\* Array.prototype.includes
ArrayIncludes(arr, x) == \E i \in 1..Len(arr) : arr[i] = x

\* the elements of an array, as a set
Elems(arr) == {arr[i] : i \in 1..Len(arr)}

(***************************************************************************)
(* Path Normalizer.                                                        *)
(***************************************************************************)
\* .replace(/\\/g, '/')
ReplaceBackslashes(s) == [i \in 1..Len(s) |-> IF s[i] = "\\" THEN "/" ELSE s[i]]

\* .replace(/^\/+|\/+$/g, '')
TrimSlashes(s) ==
  LET RECURSIVE TrimLeadingSlashes(_)
      TrimLeadingSlashes(t) ==
        IF t # <<>> /\ Head(t) = "/" THEN TrimLeadingSlashes(Tail(t)) ELSE t
      RECURSIVE TrimTrailingSlashes(_)
      TrimTrailingSlashes(t) ==
        IF t # <<>> /\ t[Len(t)] = "/"
          THEN TrimTrailingSlashes(SubSeq(t, 1, Len(t) - 1)) ELSE t
  IN  TrimTrailingSlashes(TrimLeadingSlashes(s))

\* the value normalizePath computes on a cache miss
normalizePathCompute(filePath) ==
  ToLowerCase(TrimSlashes(ReplaceBackslashes(filePath)))

\* a memo that stores the path as given instead of the normalized one
CacheSetRaw(cache, filePath, normalized) ==
  [value |-> normalized, cache |-> MapPut(cache, filePath, filePath)]

\* normalizePathCache.set(filePath, normalized); return normalized
CacheSet(cache, filePath, normalized) ==
  [value |-> normalized, cache |-> MapPut(cache, filePath, normalized)]

\* normalizePath(filePath) with the memo `cache`: the value returned and the
\* memo afterwards
normalizePath(filePath, cache) ==
  IF ~Truthy(filePath) THEN [value |-> <<>>, cache |-> cache]
  ELSE IF MapHas(cache, filePath)
    THEN [value |-> MapGet(cache, filePath), cache |-> cache]
  ELSE CacheSet(cache, filePath, normalizePathCompute(filePath))

(***************************************************************************)
(* Project Classifier.                                                     *)
(***************************************************************************)
\* an isExternalPath that knows no marker directory
isExternalPathNever(filePath, cache) == [value |-> FALSE, cache |-> cache]

isExternalPath(filePath, cache) ==
  LET \* the verdict once normalizePath has answered with n
      ExternalVerdict(n) ==
        [value |-> MatchesExternalPattern(n.value), cache |-> n.cache]
  IN  IF ~Truthy(filePath) THEN [value |-> FALSE, cache |-> cache]
      ELSE ExternalVerdict(normalizePath(filePath, cache))

\* normalizedFilePath.match(/^[a-z]:/i)
MatchesDriveLetter(s) == Len(s) >= 2 /\ s[1] \in Letters /\ s[2] = ":"

\* isProjectComponent from `const normalizedProjectRoot` on (constants.js
\* 297-310): nr is what normalizePath(projectRootPath) answered
PathVerdict(normalizedFilePath, nr) ==
  [ value |-> \/ StartsWith(normalizedFilePath, nr.value)
              \/ /\ ~Includes(normalizedFilePath, Literals.node_modules)
                 /\ ~StartsWith(normalizedFilePath, <<"/">>)
                 /\ ~MatchesDriveLetter(normalizedFilePath),
    cache |-> nr.cache ]

\* isProjectComponent from `const normalizedFilePath` on: nf is what
\* normalizePath(filePath) answered
RootVerdict(projectRootPath, nf) ==
  PathVerdict(nf.value, normalizePath(projectRootPath, nf.cache))

\* isProjectComponent on a node with a source file: ext is what
\* isExternalPath(filePath) answered
FileVerdict(filePath, projectRootPath, ext) ==
  IF ext.value THEN [value |-> FALSE, cache |-> ext.cache]
  ELSE RootVerdict(projectRootPath, normalizePath(filePath, ext.cache))

\* isProjectComponent(fiber, projectRootPath, componentName) with the memo
\* `cache`: the value returned and the memo afterwards.  A fiber's
\* _debugSource?.fileName is its field debugFile (Null when absent).
isProjectComponent(fiber, projectRootPath, componentName, cache) ==
  IF ~Truthy(projectRootPath) THEN [value |-> TRUE, cache |-> cache]
  ELSE IF Truthy(fiber.debugFile)
    THEN FileVerdict(fiber.debugFile, projectRootPath,
                     isExternalPath(fiber.debugFile, cache))
  ELSE [ value |-> /\ Truthy(componentName)
                   /\ MapHas(componentNameToFilesIndex, ToLowerCase(componentName)),
         cache |-> cache ]

(***************************************************************************)
(* Inbound configuration calls.                                            *)
(***************************************************************************)

TheOne(S) == CHOOSE x \in S : TRUE

\* the project root setProjectRoot stores, and the memo afterwards
setProjectRootValue(rootPath, cache) ==
  LET first == IF Truthy(rootPath) THEN normalizePath(rootPath, cache)
               ELSE [value |-> Null, cache |-> cache]
  IN  IF /\ window.projectRoot # {}
         /\ Truthy(TheOne(window.projectRoot))
         /\ ~Truthy(first.value)
        THEN normalizePath(TheOne(window.projectRoot), first.cache)
      ELSE first

\* a setUsageMap / setImportMap that stores what it is given and never reads
\* the window global
setMapValueNoFallback(map, global) == IF map = {} THEN {} ELSE TheOne(map)

\* the map setUsageMap / setImportMap stores: `map` is the argument (a set
\* holding the map, empty for null/undefined), `global` the window global of
\* the category
setMapValue(map, global) ==
  LET m == IF map = {} THEN {} ELSE TheOne(map)
  IN  IF global # {} /\ m = {} THEN TheOne(global) ELSE m

\* the body of the loop of setProjectFiles over fileList: the normalized
\* path set, the token index and the memo afterwards
RECURSIVE IndexFiles(_, _)
IndexFiles(fileList, acc) ==
  IF fileList = <<>> THEN acc
  ELSE
    LET filePath   == Head(fileList)
        n          == normalizePath(filePath, acc.cache)
        pathParts  == Split(n.value, {"/"})
        filename   == pathParts[Len(pathParts)]
        filenameWithoutExt == StripSourceExt(filename)
        dirs       == {pathParts[i] : i \in 1..(Len(pathParts) - 1)}
        tokens     == (IF filenameWithoutExt # <<>> THEN {filenameWithoutExt} ELSE {})
                        \cup {part \in dirs : Len(part) > 1}
        Old(t)     == IF MapHas(acc.index, t) THEN MapGet(acc.index, t) ELSE {}
    IN  IndexFiles(Tail(fileList),
          [ normalized |-> acc.normalized \cup {n.value},
            index      |-> {e \in acc.index : e[1] \notin tokens}
                             \cup {<<t, Old(t) \cup {filePath}>> : t \in tokens},
            cache      |-> n.cache ])

(***************************************************************************)
(* Render nodes (fibers).  An element type is a record                     *)
(*   [typeof, displayName, name, render, hasTypeof, type, str]             *)
(* typeof is "function", "object" or "string"; NoType is an absent one.    *)
(* A fiber is [elementType, type, debugFile, return, owner]; return and    *)
(* owner are positions in the tree, 0 when null.                           *)
(***************************************************************************)
NoType == [typeof |-> "undefined"]

FunctionType(displayName, name) ==
  [typeof |-> "function", displayName |-> displayName, name |-> name,
   render |-> NoType, hasTypeof |-> FALSE, type |-> NoType, str |-> <<>>]

StringType(tag) ==
  [typeof |-> "string", displayName |-> Null, name |-> Null,
   render |-> NoType, hasTypeof |-> FALSE, type |-> NoType, str |-> tag]

\* React.memo(inner) and the like: { $$typeof, type: inner }
WrappedType(inner) ==
  [typeof |-> "object", displayName |-> Null, name |-> Null,
   render |-> NoType, hasTypeof |-> TRUE, type |-> inner, str |-> <<>>]

\* JavaScript truthiness of an element type
TruthyType(t) == t.typeof # "undefined" /\ (t.typeof = "string" => t.str # <<>>)

\* the last path segment of fileName when it matches /([^/\\]+)\.(jsx?|tsx?)$/,
\* else Null
NameFromDebugSource(fileName) ==
  LET parts == Split(fileName, {"/", "\\"})
      base  == parts[Len(parts)]
      stem  == StripSourceExt(base)
  IN  IF SourceExtAt(base) # <<>> /\ stem # <<>> THEN stem ELSE Null

RECURSIVE resolveComponentName(_, _)
resolveComponentName(elementType, fiber) ==
  IF ~TruthyType(elementType) THEN Null
  ELSE IF elementType.typeof = "function" /\ Truthy(elementType.displayName)
    THEN elementType.displayName
  ELSE IF /\ elementType.typeof = "function"
          /\ Truthy(elementType.name)
          /\ elementType.name # Literals.Anonymous
    THEN elementType.name
  ELSE IF elementType.typeof = "function" /\ TruthyType(elementType.render)
    THEN resolveComponentName(elementType.render, fiber)
  ELSE IF /\ elementType.typeof = "function"
          /\ elementType.hasTypeof
          /\ TruthyType(elementType.type)
    THEN resolveComponentName(elementType.type, fiber)
  ELSE IF elementType.typeof = "string" THEN elementType.str
  ELSE IF elementType.hasTypeof /\ TruthyType(elementType.type)
    THEN resolveComponentName(elementType.type, fiber)
  ELSE IF Truthy(fiber.debugFile) THEN NameFromDebugSource(fiber.debugFile)
  ELSE Null

\* an isHTMLElement that compares the name as written
isHTMLElementCaseSensitive(name) == Truthy(name) /\ name \in HTML_ELEMENTS

isHTMLElement(name) == Truthy(name) /\ ToLowerCase(name) \in HTML_ELEMENTS

(***************************************************************************)
(* Render-Tree Walker.                                                     *)
(***************************************************************************)
\* an isUsedByInternalComponents that consults the maps before it looks at
\* the list of internal components
isUsedByInternalComponentsMapsFirst(componentName, seenInternalComponents) ==
  /\ Truthy(componentName)
  /\ \/ usageMap = {} /\ importMap = {}
     \/ \E i \in 1..Len(seenInternalComponents) :
          LET filePath == seenInternalComponents[i].file
          IN  /\ Truthy(filePath)
              /\ \/ MapHas(usageMap, filePath)
                      /\ ArrayIncludes(MapGet(usageMap, filePath), componentName)
                 \/ MapHas(importMap, filePath)
                      /\ ArrayIncludes(MapGet(importMap, filePath), componentName)

\* an isUsedByInternalComponents that never consults the import map
isUsedByInternalComponentsUsageOnly(componentName, seenInternalComponents) ==
  /\ Truthy(componentName)
  /\ seenInternalComponents # <<>>
  /\ \/ usageMap = {} /\ importMap = {}
     \/ \E i \in 1..Len(seenInternalComponents) :
          LET filePath == seenInternalComponents[i].file
          IN  /\ Truthy(filePath)
              /\ MapHas(usageMap, filePath)
              /\ ArrayIncludes(MapGet(usageMap, filePath), componentName)

isUsedByInternalComponents(componentName, seenInternalComponents) ==
  IF ~Truthy(componentName) \/ seenInternalComponents = <<>> THEN FALSE
  ELSE IF usageMap = {} /\ importMap = {} THEN TRUE
  ELSE \E i \in 1..Len(seenInternalComponents) :
         LET filePath == seenInternalComponents[i].file
         IN  /\ Truthy(filePath)
             /\ \/ MapHas(usageMap, filePath)
                     /\ ArrayIncludes(MapGet(usageMap, filePath), componentName)
                \/ MapHas(importMap, filePath)
                     /\ ArrayIncludes(MapGet(importMap, filePath), componentName)

\* a loop condition without the depth cap
WalkContinuesNoCap(currentFiber, depth, maxDepth) == currentFiber # 0

\* the condition of the while loop: currentFiber && depth < maxDepth
WalkContinues(currentFiber, depth, maxDepth) == currentFiber # 0 /\ depth < maxDepth

\* currentFiber.return || currentFiber._owner
NextFiber(fiber) == IF fiber.return # 0 THEN fiber.return ELSE fiber.owner

\* const elementType = currentFiber.elementType || currentFiber.type
ElementTypeOf(fiber) ==
  IF TruthyType(fiber.elementType) THEN fiber.elementType ELSE fiber.type

\* the componentName the loop body computes for a node, Null when the node
\* has no element type
ComponentNameOf(fiber) ==
  IF TruthyType(ElementTypeOf(fiber))
    THEN resolveComponentName(ElementTypeOf(fiber), fiber) ELSE Null

\* the filePath the loop body records for a node
FileOf(fiber) == IF Truthy(fiber.debugFile) THEN fiber.debugFile ELSE Null

\* the end of the loop body: currentFiber = return || _owner; depth++
\* (with the visited.add that starts it)
Advance(fiber, w) ==
  [w EXCEPT !.currentFiber = NextFiber(fiber),
            !.depth = @ + 1,
            !.visited = @ \cup {w.currentFiber},
            !.order = Append(@, w.currentFiber)]

\* the loop body on a node that is recorded: isInternal is what
\* isProjectComponent answered
Record(fiber, w, componentName, isInternal) ==
  [Advance(fiber, w) EXCEPT
     !.allComponents =
        Append(@, [name |-> componentName, fiber |-> w.currentFiber, depth |-> w.depth,
                   isInternal |-> isInternal.value, file |-> FileOf(fiber)]),
     !.internalComponents =
        IF isInternal.value
          THEN Append(@, [name |-> componentName, file |-> FileOf(fiber)])
        ELSE @,
     !.cache = isInternal.cache]

\* the loop body on a node whose name has been resolved
Visit(fiber, w, componentName) ==
  IF Truthy(componentName) /\ ~isHTMLElement(componentName)
    THEN Record(fiber, w, componentName,
                isProjectComponent(fiber, projectRoot, componentName, w.cache))
  ELSE Advance(fiber, w)

\* the while loop of traverseFiberTree from the state w =
\* [currentFiber, depth, visited, allComponents, internalComponents, cache];
\* `order` lists the nodes in the order the loop body ran on them and `stop`
\* says how the loop ended
RECURSIVE WalkLoop(_, _, _)
WalkLoop(tree, maxDepth, w) ==
  IF ~WalkContinues(w.currentFiber, w.depth, maxDepth)
    THEN [w EXCEPT !.stop = IF w.currentFiber = 0 THEN "end" ELSE "depth"]
  ELSE IF w.currentFiber \in w.visited THEN [w EXCEPT !.stop = "cycle"]
  ELSE WalkLoop(tree, maxDepth,
                Visit(tree[w.currentFiber], w, ComponentNameOf(tree[w.currentFiber])))

\* the external-usage filter that ends traverseFiberTree
FilterComponents(allComponents, internalComponents) ==
  SelectSeq(allComponents,
            LAMBDA comp : \/ comp.isInternal
                          \/ isUsedByInternalComponents(comp.name, internalComponents))

\* the final state of the loop and the array traverseFiberTree returns
Filtered(w) ==
  [loop |-> w, result |-> FilterComponents(w.allComponents, w.internalComponents)]

\* traverseFiberTree(fiber, maxDepth) on the node at position `start` of
\* `tree` with the memo `cache`
traverseFiberTree(tree, start, maxDepth, cache) ==
  Filtered(WalkLoop(tree, maxDepth,
             [ currentFiber |-> start, depth |-> 0, visited |-> {}, order |-> <<>>,
               allComponents |-> <<>>, internalComponents |-> <<>>,
               cache |-> cache, stop |-> "running" ]))

(***************************************************************************)
(* The render trees handed to the walker: a chain of at most MaxFibers     *)
(* nodes, each of one of the kinds below, whose last node links to nothing *)
(* or back into the chain (a cycle).  The nodes at odd positions link to   *)
(* the next one by `return`, those at even positions by `_owner`.          *)
(***************************************************************************)
FiberKinds ==
  << \* a project component declared in /app/src/Card.tsx
     [elementType |-> FunctionType(Null, Names.Card), type |-> NoType, debugFile |-> Paths.Card],
     \* a library component under node_modules, with a displayName
     [elementType |-> FunctionType(Names.Tooltip, Names.Tooltip), type |-> NoType,
      debugFile |-> Paths.Tooltip],
     \* memo(Card) without source information
     [elementType |-> WrappedType(FunctionType(Null, Names.Card)), type |-> NoType,
      debugFile |-> Null],
     \* an anonymous component declared outside the project root
     [elementType |-> FunctionType(Null, Literals.Anonymous), type |-> NoType,
      debugFile |-> Paths.Widget],
     \* a host element: no elementType, type 'DIV'
     [elementType |-> NoType, type |-> StringType(Names.DIV), debugFile |-> Null],
     \* another project component named Card, declared in
     \* /app/src/nav/Header.tsx
     [elementType |-> FunctionType(Null, Names.Card), type |-> NoType,
      debugFile |-> Paths.HeaderNav] >>

MkTree(kinds, back) ==
  [i \in 1..Len(kinds) |->
     LET next == IF i < Len(kinds) THEN i + 1 ELSE back
     IN  [ elementType |-> FiberKinds[kinds[i]].elementType,
           type        |-> FiberKinds[kinds[i]].type,
           debugFile   |-> FiberKinds[kinds[i]].debugFile,
           return      |-> IF i % 2 = 1 THEN next ELSE 0,
           owner       |-> IF i % 2 = 1 THEN 0 ELSE next ]]

\* the node a walk of `tree` starts at
StartOf(tree) == IF tree = <<>> THEN 0 ELSE 1

(***************************************************************************)
(* Hierarchy Path Builder.                                                 *)
(***************************************************************************)

DOM_PATH_LIMIT == 20

\* the loop of removeConsecutiveDuplicates from index i (1-based)
RECURSIVE DedupLoop(_, _, _)
DedupLoop(path, i, result) ==
  IF i > Len(path) THEN result
  ELSE DedupLoop(path, i + 1,
         IF ToLowerCase(path[i]) # ToLowerCase(path[i - 1])
           THEN Append(result, path[i]) ELSE result)

\* a removeConsecutiveDuplicates that removes nothing
removeNoDuplicates(path) == path

removeConsecutiveDuplicates(path) ==
  IF path = <<>> THEN path ELSE DedupLoop(path, 2, <<path[1]>>)

\* getComponentsFromElement(elem) with the memo `cache`.  An element is
\* [fiberKey, tree, ancestors]: the name of its fiber property ("none" when
\* it has none), the render tree that property points into, and, nearest
\* first, the name getComponentObj finds for each DOM ancestor (Null when it
\* finds none).  `hook` says whether window.__REACT_DEVTOOLS_GLOBAL_HOOK__
\* is set.
getComponentsFromElement(elem, hook, cache) ==
  LET \* components = traverseFiberTree(fiber); components = components.reverse()
      Reversed(walk) ==
        [components |-> Reverse(walk.result), cache |-> walk.loop.cache]
      \* the first detection method
      FromFiberKey ==
        IF hook /\ elem.fiberKey # "none"
          THEN Reversed(traverseFiberTree(elem.tree, StartOf(elem.tree), MAX_FIBER_DEPTH,
                                          cache))
        ELSE [components |-> <<>>, cache |-> cache]
      \* the second one, tried when the first (which gave `first`) found
      \* nothing
      FromLegacyKey(first) ==
        IF first.components = <<>> /\ elem.fiberKey = "__reactInternalInstance$"
          THEN Reversed(traverseFiberTree(elem.tree, StartOf(elem.tree), MAX_FIBER_DEPTH,
                                          first.cache))
        ELSE first
  IN  FromLegacyKey(FromFiberKey)

\* the loop of getDomPath over the DOM ancestors of the element
RECURSIVE DomPathLoop(_, _, _, _)
DomPathLoop(ancestors, i, domPath, seenComponentNames) ==
  IF i > Len(ancestors) \/ Len(domPath) >= DOM_PATH_LIMIT THEN domPath
  ELSE
    LET component == ancestors[i]
        fresh     == /\ Truthy(component)
                     /\ component # Literals.Unknown
                     /\ ~isHTMLElement(component)
                     /\ ToLowerCase(component) \notin seenComponentNames
    IN  IF fresh
          THEN DomPathLoop(ancestors, i + 1, <<component>> \o domPath,
                           seenComponentNames \cup {ToLowerCase(component)})
        ELSE DomPathLoop(ancestors, i + 1, domPath, seenComponentNames)

getDomPath(elem) == DomPathLoop(elem.ancestors, 1, <<>>, {})

\* the observations both structures start from
NotLeafNorMarkup(components, currentComponentName) ==
  SelectSeq(components,
            LAMBDA comp : comp.name # currentComponentName /\ ~isHTMLElement(comp.name))

NamesOf(components) == [i \in 1..Len(components) |-> components[i].name]

\* the names buildFullStructure joins
FullPathNames(components, currentComponentName, elem) ==
  IF components # <<>>
    THEN NamesOf(NotLeafNorMarkup(components, currentComponentName))
           \o <<currentComponentName>>
  ELSE getDomPath(elem) \o <<currentComponentName>>

\* a buildFullStructure that collapses consecutive duplicate names
buildFullStructureDeduplicated(components, currentComponentName, elem) ==
  Join(removeConsecutiveDuplicates(FullPathNames(components, currentComponentName, elem)),
       Literals.arrow)

buildFullStructure(components, currentComponentName, elem) ==
  Join(FullPathNames(components, currentComponentName, elem), Literals.arrow)

\* whether the name of an internal observation matches its origin file
\* (constants.js 836-851)
NameMatchesFile(normalizedName, file) ==
  LET normalizedFile == ToLowerCase(file)
      pathParts == Split(normalizedFile, {"/", "\\"})
      filename  == pathParts[Len(pathParts)]
      filenameWithoutExt == StripSourceExt(filename)
      Exts == {<<".", "t", "s", "x">>, <<".", "t", "s">>, <<".", "j", "s", "x">>,
               <<".", "j", "s">>}
  IN  \/ Includes(normalizedFile, <<"/">> \o normalizedName)
      \/ Includes(normalizedFile, <<"\\">> \o normalizedName)
      \/ \E sep \in {"/", "\\"}, ext \in Exts :
           EndsWith(normalizedFile, <<sep>> \o normalizedName \o ext)
      \/ filenameWithoutExt = normalizedName

\* seenComponents.has(componentKey) ? continue : add and push
AddOwned(comp, a, componentKey) ==
  IF componentKey \in a.seenComponents THEN a
  ELSE [a EXCEPT !.seenComponents = @ \cup {componentKey},
                 !.projectOwnedComponents = Append(@, comp)]

\* the branch `if (comp.file)` after the name check: n is what
\* normalizePath(comp.file) answered
AddOwnedWithFile(comp, a, n) ==
  AddOwned(comp, [a EXCEPT !.cache = n.cache],
           ToLowerCase(comp.name) \o <<":">> \o n.value)

\* a loop body that keeps every internal observation
OwnedStepUnchecked(comp, a) ==
  IF ~comp.isInternal THEN a
  ELSE IF Truthy(comp.file) THEN AddOwnedWithFile(comp, a, normalizePath(comp.file, a.cache))
  ELSE AddOwned(comp, a, ToLowerCase(comp.name))

\* the body of the loop of buildFilteredStructure over filteredComponents,
\* on the state a = [seenComponents, projectOwnedComponents, cache]
OwnedStep(comp, a) ==
  IF ~comp.isInternal THEN a
  ELSE IF Truthy(comp.file) THEN
    IF /\ ~NameMatchesFile(ToLowerCase(comp.name), comp.file)
       /\ ~MapHas(componentNameToFilesIndex, ToLowerCase(comp.name))
      THEN a
    ELSE AddOwnedWithFile(comp, a, normalizePath(comp.file, a.cache))
  ELSE AddOwned(comp, a, ToLowerCase(comp.name))

RECURSIVE ProjectOwnedLoop(_, _, _)
ProjectOwnedLoop(filteredComponents, i, a) ==
  IF i > Len(filteredComponents) THEN a
  ELSE ProjectOwnedLoop(filteredComponents, i + 1, OwnedStep(filteredComponents[i], a))

\* path, with currentComponentName appended unless some name of path equals
\* it ignoring case
WithCurrent(path, currentComponentName) ==
  IF \E i \in 1..Len(path) : ToLowerCase(path[i]) = ToLowerCase(currentComponentName)
    THEN path
  ELSE Append(path, currentComponentName)

\* a FinalPath that is empty when no name was found
FinalPathNoFallback(path, currentComponentName) ==
  IF path # <<>>
    THEN removeConsecutiveDuplicates(WithCurrent(path, currentComponentName))
  ELSE <<>>

\* the end of either branch of buildFilteredStructure: path is
\* filteredPath or domPath
FinalPath(path, currentComponentName) ==
  IF path # <<>>
    THEN removeConsecutiveDuplicates(WithCurrent(path, currentComponentName))
  ELSE <<currentComponentName>>

\* the names joined, the string returned and the memo afterwards
Structure(names, cache) ==
  [names |-> names, value |-> Join(names, Literals.arrow), cache |-> cache]

\* buildFilteredStructure(components, currentComponentName, elem) with the
\* memo `cache`
buildFilteredStructure(components, currentComponentName, elem, cache) ==
  LET \* the branch `components.length > 0`, after its loop ended in state a
      FromOwned(a) ==
        Structure(FinalPath(NamesOf(a.projectOwnedComponents), currentComponentName),
                  a.cache)
  IN  IF components # <<>>
        THEN FromOwned(ProjectOwnedLoop(NotLeafNorMarkup(components, currentComponentName),
                         1, [seenComponents |-> {}, projectOwnedComponents |-> <<>>,
                             cache |-> cache]))
      ELSE Structure(FinalPath(getDomPath(elem), currentComponentName), cache)
(***************************************************************************)
(* Source Extractor, declaration mode (src/lib/source-utils.js).  The text *)
(* of a file is the sequence of its tokens, which stand in the file        *)
(* separated by white space; parentheses, braces, `=`, `=>` and `;` are    *)
(* tokens of their own.  Each regular expression of the source is the      *)
(* matcher of the token sequences its pattern accepts on such a text.      *)
(***************************************************************************)

\* lib/constants.js: HTML_ELEMENTS, the list the extractor excludes names by
HTML_ELEMENTS_LIB ==
  { <<"d", "i", "v">>, <<"s", "p", "a", "n">>, <<"f", "o", "r", "m">>,
    <<"b", "u", "t", "t", "o", "n">>, <<"i", "n", "p", "u", "t">>, <<"a">>,
    <<"i", "m", "g">>, <<"p">>, <<"h", "1">>, <<"h", "2">>, <<"h", "3">>, <<"h", "4">>,
    <<"h", "5">>, <<"h", "6">>, <<"u", "l">>, <<"l", "i">>, <<"o", "l">>,
    <<"t", "a", "b", "l", "e">>, <<"t", "r">>, <<"t", "d">>, <<"t", "h">>,
    <<"t", "h", "e", "a", "d">>, <<"t", "b", "o", "d", "y">>,
    <<"s", "e", "c", "t", "i", "o", "n">>, <<"a", "r", "t", "i", "c", "l", "e">>,
    <<"h", "e", "a", "d", "e", "r">>, <<"f", "o", "o", "t", "e", "r">>, <<"n", "a", "v">>,
    <<"m", "a", "i", "n">>, <<"a", "s", "i", "d", "e">>, <<"b", "r">>, <<"h", "r">>,
    <<"s", "t", "r", "o", "n", "g">>, <<"e", "m">>, <<"b">>, <<"i">>, <<"u">>,
    <<"l", "a", "b", "e", "l">>, <<"s", "e", "l", "e", "c", "t">>,
    <<"o", "p", "t", "i", "o", "n">>, <<"t", "e", "x", "t", "a", "r", "e", "a">>,
    <<"f", "i", "e", "l", "d", "s", "e", "t">>, <<"l", "e", "g", "e", "n", "d">>,
    <<"c", "a", "n", "v", "a", "s">>, <<"s", "v", "g">>, <<"p", "a", "t", "h">>,
    <<"c", "i", "r", "c", "l", "e">>, <<"r", "e", "c", "t">>, <<"l", "i", "n", "e">> }

JS_KEYWORDS ==
  { <<"f", "u", "n", "c", "t", "i", "o", "n">>, <<"c", "o", "n", "s", "t">>,
    <<"l", "e", "t">>, <<"v", "a", "r">>, <<"c", "l", "a", "s", "s">>,
    <<"i", "n", "t", "e", "r", "f", "a", "c", "e">>, <<"t", "y", "p", "e">>,
    <<"e", "n", "u", "m">>, <<"e", "x", "p", "o", "r", "t">>,
    <<"i", "m", "p", "o", "r", "t">>, <<"d", "e", "f", "a", "u", "l", "t">>,
    <<"r", "e", "t", "u", "r", "n">>, <<"i", "f">>, <<"e", "l", "s", "e">>,
    <<"f", "o", "r">>, <<"w", "h", "i", "l", "e">>, <<"s", "w", "i", "t", "c", "h">>,
    <<"c", "a", "s", "e">>, <<"b", "r", "e", "a", "k">>,
    <<"c", "o", "n", "t", "i", "n", "u", "e">>, <<"t", "r", "y">>,
    <<"c", "a", "t", "c", "h">>, <<"f", "i", "n", "a", "l", "l", "y">>,
    <<"t", "h", "r", "o", "w">>, <<"n", "e", "w">>, <<"t", "h", "i", "s">>,
    <<"s", "u", "p", "e", "r">>, <<"e", "x", "t", "e", "n", "d", "s">>,
    <<"i", "m", "p", "l", "e", "m", "e", "n", "t", "s">>, <<"s", "t", "a", "t", "i", "c">>,
    <<"a", "s", "y", "n", "c">>, <<"a", "w", "a", "i", "t">>,
    <<"p", "r", "o", "m", "i", "s", "e">>, <<"a", "r", "r", "a", "y">>,
    <<"o", "b", "j", "e", "c", "t">>, <<"s", "t", "r", "i", "n", "g">>,
    <<"n", "u", "m", "b", "e", "r">>, <<"b", "o", "o", "l", "e", "a", "n">>,
    <<"n", "u", "l", "l">>, <<"u", "n", "d", "e", "f", "i", "n", "e", "d">>,
    <<"v", "o", "i", "d">> }

\* EXCLUDED_FILE_PATTERNS: /\.(styles|style|styl|css|test|spec)\.(ts|js|tsx|jsx)$/i
\* and /\.d\.ts$/i
ExcludedFileKinds ==
  { <<"s", "t", "y", "l", "e", "s">>, <<"s", "t", "y", "l", "e">>, <<"s", "t", "y", "l">>,
    <<"c", "s", "s">>, <<"t", "e", "s", "t">>, <<"s", "p", "e", "c">> }

shouldExcludeFile(filePath) ==
  \/ \E kind \in ExcludedFileKinds,
        ext \in {<<"t", "s">>, <<"j", "s">>, <<"t", "s", "x">>, <<"j", "s", "x">>} :
       EndsWith(ToLowerCase(filePath), <<".">> \o kind \o <<".">> \o ext)
  \/ EndsWith(ToLowerCase(filePath), <<".", "d", ".", "t", "s">>)

shouldExcludeName(name) ==
  \/ Len(name) < 2
  \/ ToLowerCase(name) \in HTML_ELEMENTS_LIB
  \/ ToLowerCase(name) \in JS_KEYWORDS

\* the characters \w matches
WordChars ==
  Letters \cup {"0", "1", "2", "3", "4", "5", "6", "7", "8", "9", "_"}

\* what (\w+) captures at the start of a token: its longest prefix of word
\* characters
RECURSIVE WordPrefix(_)
WordPrefix(token) ==
  IF token # <<>> /\ Head(token) \in WordChars
    THEN <<Head(token)>> \o WordPrefix(Tail(token))
  ELSE <<>>

\* (\w+) followed by \s* and more of the pattern: the token is a word
IsWord(token) == token # <<>> /\ WordPrefix(token) = token

\* the i-th token of the text, <<>> past its end
Tok(content, i) == IF i \in 1..Len(content) THEN content[i] ELSE <<>>

\* (?:\([^)]*\)\s*=>|function|React\.(?:forwardRef|memo)) at token i
FunctionLikeAt(content, i) ==
  \/ /\ Tok(content, i) = <<"(">>
     /\ \E j \in (i + 1)..Len(content) :
          /\ content[j] = <<")">>
          /\ \A k \in (i + 1)..(j - 1) : content[k] # <<")">>
          /\ StartsWith(Tok(content, j + 1), <<"=", ">">>)
  \/ StartsWith(Tok(content, i), Literals.function)
  \/ StartsWith(Tok(content, i), Literals.ReactForwardRef)
  \/ StartsWith(Tok(content, i), Literals.ReactMemo)

\* the patterns in priority order, matched from token i: 1 default function,
\* 2 default const, 3 standalone default, 4 exported const, 5 exported
\* function, 6 exported class, 7 local const
RuleMatchesAt(rule, content, i) ==
  CASE rule = 1 ->  \* /export\s+default\s+function\s+(\w+)/
         /\ EndsWith(Tok(content, i), Literals.export)
         /\ Tok(content, i + 1) = Literals.default
         /\ Tok(content, i + 2) = Literals.function
         /\ WordPrefix(Tok(content, i + 3)) # <<>>
    [] rule = 2 ->  \* /export\s+default\s+const\s+(\w+)\s*=/
         /\ EndsWith(Tok(content, i), Literals.export)
         /\ Tok(content, i + 1) = Literals.default
         /\ Tok(content, i + 2) = Literals.const
         /\ IsWord(Tok(content, i + 3))
         /\ StartsWith(Tok(content, i + 4), <<"=">>)
    [] rule = 3 ->  \* /export\s+default\s+(\w+)\s*;/
         /\ EndsWith(Tok(content, i), Literals.export)
         /\ Tok(content, i + 1) = Literals.default
         /\ IsWord(Tok(content, i + 2))
         /\ StartsWith(Tok(content, i + 3), <<";">>)
    [] rule = 4 ->  \* /export\s+const\s+(\w+)\s*=\s*(?:...)/g
         /\ EndsWith(Tok(content, i), Literals.export)
         /\ Tok(content, i + 1) = Literals.const
         /\ IsWord(Tok(content, i + 2))
         /\ Tok(content, i + 3) = <<"=">>
         /\ FunctionLikeAt(content, i + 4)
    [] rule = 5 ->  \* /export\s+function\s+(\w+)\s*\(/g
         /\ EndsWith(Tok(content, i), Literals.export)
         /\ Tok(content, i + 1) = Literals.function
         /\ IsWord(Tok(content, i + 2))
         /\ StartsWith(Tok(content, i + 3), <<"(">>)
    [] rule = 6 ->  \* /export\s+class\s+(\w+)/g
         /\ EndsWith(Tok(content, i), Literals.export)
         /\ Tok(content, i + 1) = Literals.class
         /\ WordPrefix(Tok(content, i + 2)) # <<>>
    [] rule = 7 ->  \* /(?:const|let|var)\s+(\w+)\s*=\s*(?:...)/g
         /\ \E kw \in {Literals.const, Literals.let, Literals.var} :
              EndsWith(Tok(content, i), kw)
         /\ IsWord(Tok(content, i + 1))
         /\ Tok(content, i + 2) = <<"=">>
         /\ FunctionLikeAt(content, i + 3)

\* match[1] of the match of `rule` from token i
CapturedAt(rule, content, i) ==
  CASE rule \in {1, 2} -> WordPrefix(Tok(content, i + 3))
    [] rule \in {3, 4, 5, 6} -> WordPrefix(Tok(content, i + 2))
    [] rule = 7 -> WordPrefix(Tok(content, i + 1))

\* the captures of content.matchAll(rule) from token i on, in text order
RECURSIVE MatchAll(_, _, _)
MatchAll(rule, content, i) ==
  IF i > Len(content) THEN <<>>
  ELSE IF RuleMatchesAt(rule, content, i)
    THEN <<CapturedAt(rule, content, i)>> \o MatchAll(rule, content, i + 1)
  ELSE MatchAll(rule, content, i + 1)

\* the capture of content.match(rule), as an array of at most one name
Match(rule, content) ==
  IF MatchAll(rule, content, 1) = <<>> THEN <<>>
  ELSE <<Head(MatchAll(rule, content, 1))>>

\* for (const match of ...) if (!shouldExcludeName(match[1]) &&
\* !allNames.has(match[1])) push
RECURSIVE PushNew(_, _)
PushNew(componentNames, matches) ==
  IF matches = <<>> THEN componentNames
  ELSE PushNew(IF /\ ~shouldExcludeName(Head(matches))
                  /\ Head(matches) \notin Elems(componentNames)
                 THEN Append(componentNames, Head(matches))
               ELSE componentNames,
               Tail(matches))

\* priorities 1 and 2 push without looking at allNames
PushUnchecked(componentNames, matches) ==
  componentNames \o SelectSeq(matches, LAMBDA name : ~shouldExcludeName(name))

\* an extractor that stops at the first rule that yields a name
RECURSIVE FirstRuleOnly(_, _)
FirstRuleOnly(content, rule) ==
  IF rule > 6 THEN <<>>
  ELSE IF PushNew(<<>>, IF rule <= 3 THEN Match(rule, content)
                        ELSE MatchAll(rule, content, 1)) # <<>>
    THEN PushNew(<<>>, IF rule <= 3 THEN Match(rule, content) ELSE MatchAll(rule, content, 1))
  ELSE FirstRuleOnly(content, rule + 1)

ExportedFirstRuleOnly(content) == FirstRuleOnly(content, 1)

\* componentNames after priorities 1 to 5 (rules 1 to 6)
Exported(content) ==
  PushNew(PushNew(PushNew(PushNew(
    PushUnchecked(PushUnchecked(<<>>, Match(1, content)), Match(2, content)),
    Match(3, content)),
    MatchAll(4, content, 1)),
    MatchAll(5, content, 1)),
    MatchAll(6, content, 1))

\* the lower priority: local constants, only if nothing was found
WithLocal(content, componentNames) ==
  IF componentNames = <<>> THEN PushNew(<<>>, MatchAll(7, content, 1))
  ELSE componentNames

\* the index of the last "." of a base name that path.extname cuts at, 0
\* when there is none (a leading dot starts no extension)
ExtnameStart(base) ==
  IF \E i \in 2..Len(base) : base[i] = "."
    THEN CHOOSE i \in 2..Len(base) :
           base[i] = "." /\ \A j \in (i + 1)..Len(base) : base[j] # "."
  ELSE 0

\* path.basename(filePath, path.extname(filePath))
BasenameWithoutExt(filePath) ==
  IF ExtnameStart(Split(filePath, {"/"})[Len(Split(filePath, {"/"}))]) = 0
    THEN Split(filePath, {"/"})[Len(Split(filePath, {"/"}))]
  ELSE SubSeq(Split(filePath, {"/"})[Len(Split(filePath, {"/"}))], 1,
              ExtnameStart(Split(filePath, {"/"})[Len(Split(filePath, {"/"}))]) - 1)

\* the fallback: the file name, if no pattern matched
WithFilename(filePath, componentNames) ==
  IF componentNames = <<>> /\ ~shouldExcludeName(BasenameWithoutExt(filePath))
    THEN <<BasenameWithoutExt(filePath)>>
  ELSE componentNames

\* an extractComponentNames that falls back to the file name when the file
\* cannot be read
extractComponentNamesOfUnread(file) ==
  IF shouldExcludeFile(file.path) THEN <<>>
  ELSE IF ~file.readable THEN WithFilename(file.path, <<>>)
  ELSE WithFilename(file.path, WithLocal(file.content, Exported(file.content)))

\* extractComponentNames(filePath) on the file [path, readable, content]
extractComponentNames(file) ==
  IF shouldExcludeFile(file.path) THEN <<>>
  ELSE IF ~file.readable THEN <<>>
  ELSE WithFilename(file.path, WithLocal(file.content, Exported(file.content)))

\* the texts of at most MaxStmts statements
RECURSIVE Flatten(_)
Flatten(stmts) == IF stmts = <<>> THEN <<>> ELSE Head(stmts) \o Flatten(Tail(stmts))


(***************************************************************************)
(* Source Extractor, usage mode and import mode (src/lib/source-utils.js   *)
(* 157-290).  These two read the text of the file character by character:  *)
(* the text is the tokens of the file with one blank between two tokens.   *)
(* A regular expression with the flag g is run by exec() in a loop: each   *)
(* search starts where the match before it ended.                          *)
(***************************************************************************)

\* the index after the longest run of characters of `chars` that starts at
\* index i of s: what \w+, \s+ and \s* consume there
RECURSIVE RunEnd(_, _, _)
RunEnd(s, i, chars) ==
  IF i \in 1..Len(s) /\ s[i] \in chars THEN RunEnd(s, i + 1, chars) ELSE i

\* extractJSXUsageFromFile(filePath) on the file [path, readable, content]
extractJSXUsageFromFile(file) ==
  LET content == Join(file.content, <<" ">>)
      Ch(i) == IF i \in 1..Len(content) THEN content[i] ELSE ""
      At(i, lit) == /\ i + Len(lit) - 1 <= Len(content)
                    /\ SubSeq(content, i, i + Len(lit) - 1) = lit
      NoMatch == [end |-> 0, names |-> {}]
      \* <(\w+) at i ends before index NameEnd(i); (?:\.(\w+))? after it ends
      \* before NsEnd(i), which is 0 when that group has nothing to match
      NameEnd(i) == RunEnd(content, i + 1, WordChars)
      NsEnd(i) ==
        IF Ch(NameEnd(i)) = "." /\ RunEnd(content, NameEnd(i) + 1, WordChars) > NameEnd(i) + 1
          THEN RunEnd(content, NameEnd(i) + 1, WordChars)
        ELSE 0
      Name(i) == SubSeq(content, i + 1, NameEnd(i) - 1)
      Namespaced(i) == SubSeq(content, NameEnd(i) + 1, NsEnd(i) - 1)
      Keep(componentName) ==
        IF /\ ToLowerCase(componentName) \notin {ToLowerCase(el) : el \in HTML_ELEMENTS_LIB}
           /\ ~shouldExcludeName(componentName)
          THEN {componentName}
        ELSE {}
      \* /<(\w+)(?:\.\w+)?\s*\/>/ : the name it adds is match[1]
      selfClosingPattern(i) ==
        IF Ch(i) # "<" \/ NameEnd(i) = i + 1 THEN NoMatch
        ELSE IF NsEnd(i) # 0 /\ At(RunEnd(content, NsEnd(i), {" "}), <<"/", ">">>)
          THEN [end |-> RunEnd(content, NsEnd(i), {" "}) + 2, names |-> Keep(Name(i))]
        ELSE IF At(RunEnd(content, NameEnd(i), {" "}), <<"/", ">">>)
          THEN [end |-> RunEnd(content, NameEnd(i), {" "}) + 2, names |-> Keep(Name(i))]
        ELSE NoMatch
      \* /<(\w+)(?:\.(\w+))?(?:\s|>|\/)/ : the name it adds is match[2] when
      \* there is one, and match[1] otherwise
      openingTagPattern(i) ==
        IF Ch(i) # "<" \/ NameEnd(i) = i + 1 THEN NoMatch
        ELSE IF NsEnd(i) # 0 /\ Ch(NsEnd(i)) \in {" ", ">", "/"}
          THEN [end |-> NsEnd(i) + 1, names |-> Keep(Namespaced(i))]
        ELSE IF Ch(NameEnd(i)) \in {" ", ">", "/"}
          THEN [end |-> NameEnd(i) + 1, names |-> Keep(Name(i))]
        ELSE NoMatch
      \* /\{[^}]*?<(\w+)(?:\.(\w+))?(?:\s|>|\/)/ : the nearest tag after the
      \* brace with no closing brace in between
      TagsAfter(i) ==
        {p \in (i + 1)..Len(content) :
           /\ openingTagPattern(p).end # 0
           /\ \A q \in (i + 1)..(p - 1) : content[q] # "}"}
      conditionalPattern(i) ==
        IF Ch(i) # "{" \/ TagsAfter(i) = {} THEN NoMatch
        ELSE openingTagPattern(CHOOSE p \in TagsAfter(i) : \A q \in TagsAfter(i) : p <= q)
      RECURSIVE ExecLoop(_, _)
      ExecLoop(pattern, i) ==
        IF i > Len(content) THEN {}
        ELSE LET match == CASE pattern = 1 -> selfClosingPattern(i)
                            [] pattern = 2 -> openingTagPattern(i)
                            [] pattern = 3 -> conditionalPattern(i)
             IN IF match.end = 0 THEN ExecLoop(pattern, i + 1)
                ELSE match.names \cup ExecLoop(pattern, match.end)
  IN IF shouldExcludeFile(file.path) THEN {}
     ELSE IF ~file.readable THEN {}
     ELSE ExecLoop(1, 1) \cup ExecLoop(2, 1) \cup ExecLoop(3, 1)

\* an import-list entry that gives the name it binds locally
ImportedNameLocal(imp) ==
  LET words == SelectSeq(Split(imp, {" "}), LAMBDA w : w # <<>>)
  IN IF words = <<>> THEN <<>>
     ELSE IF Len(words) = 3 /\ words[2] = <<"a", "s">> THEN words[3]
     ELSE words[1]

\* the callback of importsList.split(',').map(...): the name an entry of an
\* import list gives, <<>> for the empty string.  `words` are the words
\* of imp.trim(), which blanks separate.
ImportedName(imp) ==
  LET words == SelectSeq(Split(imp, {" "}), LAMBDA w : w # <<>>)
      \* trimmed.match(/^(\w+)(?:\s+as\s+\w+)?$/)
      aliasMatch ==
        \/ Len(words) = 1 /\ IsWord(words[1])
        \/ /\ Len(words) = 3
           /\ IsWord(words[1]) /\ words[2] = <<"a", "s">> /\ IsWord(words[3])
  IN IF aliasMatch THEN words[1]
     \* trimmed.split(/\s+/)[0]
     ELSE IF words = <<>> THEN <<>>
     ELSE words[1]

\* extractImportsFromFile(filePath) on the file [path, readable, content]
extractImportsFromFile(file) ==
  LET content == Join(file.content, <<" ">>)
      Ch(i) == IF i \in 1..Len(content) THEN content[i] ELSE ""
      At(i, lit) == /\ i + Len(lit) - 1 <= Len(content)
                    /\ SubSeq(content, i, i + Len(lit) - 1) = lit
      NoMatch == [end |-> 0, names |-> {}]
      Keep(componentName) ==
        IF componentName # <<>> /\ ~shouldExcludeName(componentName) THEN {componentName}
        ELSE {}
      Word(i) == SubSeq(content, i, RunEnd(content, i, WordChars) - 1)
      \* import\s+ at i ends before index AfterImport(i), 0 when it does not
      \* match there
      AfterImport(i) ==
        IF At(i, <<"i", "m", "p", "o", "r", "t">>) /\ RunEnd(content, i + 6, {" "}) > i + 6
          THEN RunEnd(content, i + 6, {" "})
        ELSE 0
      \* the closing quote of ['"](.+?)['"] whose opening quote is at b
      Closing(b) == {q \in (b + 2)..Len(content) : content[q] \in {"'", "\""}}
      \* \s+from\s+['"](.+?)['"] at j ends before index FromEnd(j), 0 when it
      \* does not match there
      FromEnd(j) ==
        LET a == RunEnd(content, j, {" "})
            b == RunEnd(content, a + 4, {" "})
        IN IF /\ a > j /\ At(a, <<"f", "r", "o", "m">>)
              /\ b > a + 4 /\ Ch(b) \in {"'", "\""}
              /\ Closing(b) # {}
             THEN (CHOOSE q \in Closing(b) : \A r \in Closing(b) : q <= r) + 1
           ELSE 0
      \* \{([^}]+)\} at b ends at the first closing brace after b, 0 when
      \* there is none or when nothing stands between the braces
      Braces(b) == {c \in (b + 1)..Len(content) : content[c] = "}"}
      Close(b) ==
        IF Ch(b) = "{" /\ Braces(b) # {} /\ (\A c \in Braces(b) : c > b + 1)
          THEN CHOOSE c \in Braces(b) : \A d \in Braces(b) : c <= d
        ELSE 0
      Listed(b) ==
        UNION {Keep(ImportedName(imp)) :
                 imp \in Elems(Split(SubSeq(content, b + 1, Close(b) - 1), {","}))}
      \* /import\s+(\w+)\s+from\s+['"](.+?)['"]/
      defaultImportPattern(i) ==
        LET a == AfterImport(i)
            e == RunEnd(content, a, WordChars)
        IN IF a = 0 \/ e = a \/ FromEnd(e) = 0 THEN NoMatch
           ELSE [end |-> FromEnd(e),
                 names |-> IF Includes(SubSeq(content, IF i > 10 THEN i - 10 ELSE 1, i - 1),
                                       <<"t", "y", "p", "e", " ">>)
                             THEN {} ELSE Keep(Word(a))]
      \* /import\s+\{\s*([^}]+)\s*\}\s+from\s+['"](.+?)['"]/
      namedImportPattern(i) ==
        LET a == AfterImport(i)
        IN IF a = 0 \/ Close(a) = 0 \/ FromEnd(Close(a) + 1) = 0 THEN NoMatch
           ELSE [end |-> FromEnd(Close(a) + 1), names |-> Listed(a)]
      \* /import\s+\*\s+as\s+(\w+)\s+from\s+['"](.+?)['"]/
      namespacePattern(i) ==
        LET a == AfterImport(i)
            b == RunEnd(content, a + 1, {" "})
            c == RunEnd(content, b + 2, {" "})
            e == RunEnd(content, c, WordChars)
        IN IF \/ a = 0 \/ Ch(a) # "*"
              \/ b = a + 1 \/ ~At(b, <<"a", "s">>)
              \/ c = b + 2 \/ e = c
              \/ FromEnd(e) = 0
             THEN NoMatch
           ELSE [end |-> FromEnd(e), names |-> Keep(Word(c))]
      \* /import\s+(\w+)(?:\s*,\s*\{([^}]+)\})?\s+from\s+['"](.+?)['"]/
      mixedImportPattern(i) ==
        LET a == AfterImport(i)
            e == RunEnd(content, a, WordChars)
            comma == RunEnd(content, e, {" "})
            b == RunEnd(content, comma + 1, {" "})
        IN IF a = 0 \/ e = a THEN NoMatch
           ELSE IF Ch(comma) = "," /\ Close(b) # 0 /\ FromEnd(Close(b) + 1) # 0
             THEN [end |-> FromEnd(Close(b) + 1), names |-> Keep(Word(a)) \cup Listed(b)]
           ELSE IF FromEnd(e) # 0
             THEN [end |-> FromEnd(e), names |-> Keep(Word(a))]
           ELSE NoMatch
      RECURSIVE ExecLoop(_, _)
      ExecLoop(pattern, i) ==
        IF i > Len(content) THEN {}
        ELSE LET match == CASE pattern = 1 -> defaultImportPattern(i)
                            [] pattern = 2 -> namedImportPattern(i)
                            [] pattern = 3 -> namespacePattern(i)
                            [] pattern = 4 -> mixedImportPattern(i)
             IN IF match.end = 0 THEN ExecLoop(pattern, i + 1)
                ELSE match.names \cup ExecLoop(pattern, match.end)
  IN IF shouldExcludeFile(file.path) THEN {}
     ELSE IF ~file.readable THEN {}
     ELSE ExecLoop(1, 1) \cup ExecLoop(2, 1) \cup ExecLoop(3, 1) \cup ExecLoop(4, 1)
(***************************************************************************)
(* The arguments and the inputs the operations are tried on.               *)
(***************************************************************************)
Inputs ==
  LET
    \* values the collaborator pushes
    U1 == {<<Paths.Card, <<Names.Tooltip>>>>}
    I1 == {<<Paths.Widget, <<Names.Card, Names.Modal>>>>}
    F1 == <<Paths.Card, Paths.Modal>>
    RootArgs == {Null, Paths.app, Paths.slash}
    \* a map or file-list argument is a set holding the value, empty for
    \* null/undefined
    UsageArgs == {{}, {{}}, {U1}}
    ImportArgs == {{}, {{}}, {I1}}
    FilesArgs == {{}, {<<>>}, {F1}}
    \* the lists a page supplies one after the other: a second list that
    \* shares tokens with the first
    F2 == <<Paths.CardNav, Paths.a>>
    ReFilesArgs == FilesArgs \cup {{F2}}
    \* window.__XRAY_REACT_*__ : each global is a set holding its value, empty
    \* when the global is not defined
    WindowStates ==
      { [projectRoot |-> {}, usageMap |-> {}, importMap |-> {}, projectFiles |-> {}],
        [projectRoot |-> {Paths.app}, usageMap |-> {U1}, importMap |-> {I1}, projectFiles |-> {F1}] }
    KindSeqs == UNION {[1..n -> 1..Len(FiberKinds)] : n \in 0..MaxFibers}
    Trees == UNION { {MkTree(kinds, back) : back \in 0..Len(kinds)} : kinds \in KindSeqs }
    \* the trees of at most one node, without a cycle
    SmallTrees == {MkTree(kinds, 0) : kinds \in {k \in KindSeqs : Len(k) <= 1}}
    \* the maxDepth arguments tried
    DepthArgs == 0..MaxDepthArg \cup {MAX_FIBER_DEPTH}
    \* the statements source texts are made of
    Statements ==
      { \* export default function Foo ( ) { }
        <<<<"e", "x", "p", "o", "r", "t">>, <<"d", "e", "f", "a", "u", "l", "t">>, <<"f", "u", "n", "c", "t", "i", "o", "n">>, <<"F", "o", "o">>, <<"(">>, <<")">>, <<"{">>, <<"}">>>>,
        \* export const Bar = ( ) => { }
        <<<<"e", "x", "p", "o", "r", "t">>, <<"c", "o", "n", "s", "t">>, <<"B", "a", "r">>, <<"=">>, <<"(">>, <<")">>, <<"=", ">">>, <<"{">>, <<"}">>>>,
        \* export default Foo ;
        <<<<"e", "x", "p", "o", "r", "t">>, <<"d", "e", "f", "a", "u", "l", "t">>, <<"F", "o", "o">>, <<";">>>>,
        \* export default const Foo = Bar ;
        <<<<"e", "x", "p", "o", "r", "t">>, <<"d", "e", "f", "a", "u", "l", "t">>, <<"c", "o", "n", "s", "t">>, <<"F", "o", "o">>, <<"=">>, <<"B", "a", "r">>, <<";">>>>,
        \* export function div ( ) { }
        <<<<"e", "x", "p", "o", "r", "t">>, <<"f", "u", "n", "c", "t", "i", "o", "n">>, <<"d", "i", "v">>, <<"(">>, <<")">>, <<"{">>, <<"}">>>>,
        \* export class Bar { }
        <<<<"e", "x", "p", "o", "r", "t">>, <<"c", "l", "a", "s", "s">>, <<"B", "a", "r">>, <<"{">>, <<"}">>>>,
        \* const Baz = ( props ) => { }
        <<<<"c", "o", "n", "s", "t">>, <<"B", "a", "z">>, <<"=">>, <<"(">>, <<"p", "r", "o", "p", "s">>, <<")">>, <<"=", ">">>, <<"{">>, <<"}">>>>,
        \* export function Baz ( ) { }
        <<<<"e", "x", "p", "o", "r", "t">>, <<"f", "u", "n", "c", "t", "i", "o", "n">>, <<"B", "a", "z">>, <<"(">>, <<")">>, <<"{">>, <<"}">>>>,
        \* export const Foo = React.memo ( Bar ) ;
        <<<<"e", "x", "p", "o", "r", "t">>, <<"c", "o", "n", "s", "t">>, <<"F", "o", "o">>, <<"=">>, <<"R", "e", "a", "c", "t", ".", "m", "e", "m", "o">>, <<"(">>, <<"B", "a", "r">>, <<")">>, <<";">>>> }
    SourceTexts == {Flatten(q) : q \in UNION {[1..n -> Statements] : n \in 0..MaxStmts}}
    SourcePaths == {Paths.Card, Paths.CardTest, Paths.a}
    SourceFiles ==
      {[path |-> p, readable |-> TRUE, content |-> c] : p \in SourcePaths, c \in SourceTexts}
        \cup {[path |-> p, readable |-> FALSE, content |-> <<>>] : p \in SourcePaths}
    \* the statements the texts of usage mode and import mode are made of
    UsageStatements ==
      {
        \* <Foo.Bar />
        <<<<"<", "F", "o", "o", ".", "B", "a", "r">>, <<"/", ">">>>>,
        \* <div>
        <<<<"<", "d", "i", "v", ">">>>>,
        \* <Card>
        <<<<"<", "C", "a", "r", "d", ">">>>>,
        \* { ok && <Modal /> }
        <<<<"{">>, <<"o", "k">>, <<"&", "&">>, <<"<", "M", "o", "d", "a", "l">>, <<"/", ">">>, <<"}">>>>,
        \* <Foo.Bar>
        <<<<"<", "F", "o", "o", ".", "B", "a", "r", ">">>>>,
        \* <Modal/>
        <<<<"<", "M", "o", "d", "a", "l", "/", ">">>>>,
        \* import { Foo as Bar } from "x"
        <<<<"i", "m", "p", "o", "r", "t">>, <<"{">>, <<"F", "o", "o">>, <<"a", "s">>, <<"B", "a", "r">>, <<"}">>, <<"f", "r", "o", "m">>, <<"\"", "x", "\"">>>>,
        \* import Card from 'x'
        <<<<"i", "m", "p", "o", "r", "t">>, <<"C", "a", "r", "d">>, <<"f", "r", "o", "m">>, <<"'", "x", "'">>>>,
        \* import * as Foo from "x"
        <<<<"i", "m", "p", "o", "r", "t">>, <<"*">>, <<"a", "s">>, <<"F", "o", "o">>, <<"f", "r", "o", "m">>, <<"\"", "x", "\"">>>>,
        \* import Card , { Foo as Bar , Modal } from "x"
        <<<<"i", "m", "p", "o", "r", "t">>, <<"C", "a", "r", "d">>, <<",">>, <<"{">>, <<"F", "o", "o">>, <<"a", "s">>, <<"B", "a", "r">>, <<",">>, <<"M", "o", "d", "a", "l">>, <<"}">>, <<"f", "r", "o", "m">>, <<"\"", "x", "\"">>>>,
        \* import type Foo from "x"
        <<<<"i", "m", "p", "o", "r", "t">>, <<"t", "y", "p", "e">>, <<"F", "o", "o">>, <<"f", "r", "o", "m">>, <<"\"", "x", "\"">>>>,
        \* import { div as Box } from "x"
        <<<<"i", "m", "p", "o", "r", "t">>, <<"{">>, <<"d", "i", "v">>, <<"a", "s">>, <<"B", "o", "x">>, <<"}">>, <<"f", "r", "o", "m">>, <<"\"", "x", "\"">>>> }
    UsageFiles ==
      {[path |-> p, readable |-> TRUE, content |-> Flatten(q)] :
         p \in {Paths.Card, Paths.CardTest},
         q \in UNION {[1..n -> UsageStatements] : n \in 0..MaxStmts}}
        \cup {[path |-> Paths.Card, readable |-> FALSE, content |-> <<>>]}
    OriginPaths == {Null, Paths.Card, Paths.Tooltip, Paths.Widget, Paths.Grid, Paths.Menu}
    ClassifyNames == {Null, Names.Card, Names.Modal}
    FiberElems ==
      {[fiberKey |-> "__reactFiber$", tree |-> t, ancestors |-> <<>>] : t \in Trees}
    AncestorNames == {Null, Names.Card, Names.card, Names.div, Names.Widget}
    AncestorSeqs == UNION {[1..n -> AncestorNames] : n \in 0..MaxAncestors}
    \* elements whose components come from the legacy fiber property or from
    \* the DOM
    OtherElems ==
      {[fiberKey |-> "none", tree |-> <<>>, ancestors |-> a] : a \in AncestorSeqs}
        \cup {[fiberKey |-> k, tree |-> t, ancestors |-> a] :
                k \in {"__reactFiber$", "__reactInternalInstance$"},
                t \in SmallTrees, a \in AncestorSeqs}
    \* the data-xray-react-element-name of an overlay; <<>> when it has none
    LeafNames == {<<>>, Names.Card, Names.card, Names.Widget, Names.div}
    \* a page element: an element as above with its tag name and the uid
    \* getComponentObj reads from the fiber of its first component (_debugID,
    \* or index and key); <<>> when these are all unset
    PageElem(fiberKey, kinds, tagName, uid) ==
      [fiberKey |-> fiberKey, tree |-> MkTree(kinds, 0), ancestors |-> <<>>,
       tagName |-> tagName, uid |-> uid]
    \* Card; Tooltip inside Card inside memo(Card); a plain div; a custom tag
    \* rendered for a host fiber only; Card with a _debugID
    pCard == PageElem("__reactFiber$", <<1>>, Names.DIV, <<>>)
    pDeep == PageElem("__reactFiber$", <<2, 1, 3>>, Names.DIV, <<>>)
    pPlain == PageElem("none", <<>>, Names.DIV, <<>>)
    pHost == PageElem("__reactInternalInstance$", <<5>>, Names.props, <<>>)
    pUid == PageElem("__reactFiber$", <<1>>, Names.DIV, <<"7">>)
    \* document.body.getElementsByTagName('*') of the pages tried: the last
    \* one needs a second batch of elements and a third batch of paths
    Pages == { <<>>, <<pDeep, pPlain>>, <<pUid, pHost, pUid>>,
               [i \in 1..(2 * pathBatchSize + 1) |-> pCard] }
    \* the source files under the source path, in the order scanSourceFiles
    \* lists them
    File(path, readable, content) ==
      [path |-> path, readable |-> readable, content |-> content]
    fNav == File(Paths.CardNav, TRUE, <<>>)
    fFooter == File(Paths.CardFooter, TRUE, <<>>)
    fFooterJs == File(Paths.CardFooterJs, TRUE, <<>>)
    fPage == File(Paths.Page, TRUE, <<>>)
    \* export const Card = ( ) => { }
    fPageCard == File(Paths.Page, TRUE,
                      <<Literals.export, Literals.const, Names.Card, <<"=">>, <<"(">>,
                        <<")">>, <<"=", ">">>, <<"{">>, <<"}">>>>)
    fTest == File(Paths.CardNavTest, TRUE, <<>>)
    fUnreadable == File(Paths.CardNav, FALSE, <<>>)
    Disks == { <<>>, <<fFooterJs, fFooter, fNav>>, <<fNav, fFooter, fPage>>,
               <<fPageCard, fFooterJs, fTest>>, <<fUnreadable, fFooter>> }
    \* the strings received on 'xray-react-component'
    Structures ==
      { <<>>,
        Join(<<Names.Page, Names.Nav, Names.Card>>, Literals.arrow),
        Join(<<Names.Card, Names.Nav, Names.Card>>, Literals.arrow),
        Join(<<Names.Page, <<" ">> \o Names.Card \o <<" ">>>>, Literals.arrow),
        Names.Card,
        Join(<<Names.Page, Names.Modal>>, Literals.arrow),
        Join(<<Names.Page, Names.Nav, Names.Header>>, Literals.arrow),
        Join(<<Names.Footer, Names.Card>>, Literals.arrow) }
    \* the data received on 'register-source'
    Registrations ==
      { [name |-> Names.Card, path |-> Paths.CardGone],
        [name |-> Names.Header, path |-> Paths.HeaderFooter],
        [name |-> Names.Header, path |-> Paths.HeaderNav],
        [name |-> <<>>, path |-> Paths.Page] }
    \* window.__XRAY_REACT_MODE__ as the plugin injects it (vite.js 165, 225),
    \* and the arguments of setMode
    WindowModes == {{}, {"full"}, {"simple"}, {"compact"}}
    ModeArgs == {"full", "simple", "compact"}
  IN [
       RootArgs |-> RootArgs,
       UsageArgs |-> UsageArgs,
       ImportArgs |-> ImportArgs,
       FilesArgs |-> FilesArgs,
       ReFilesArgs |-> ReFilesArgs,
       WindowStates |-> WindowStates,
       DepthArgs |-> DepthArgs,
       SourceFiles |-> SourceFiles,
       UsageFiles |-> UsageFiles,
       OriginPaths |-> OriginPaths,
       ClassifyNames |-> ClassifyNames,
       FiberElems |-> FiberElems,
       OtherElems |-> OtherElems,
       LeafNames |-> LeafNames,
       Pages |-> Pages,
       WindowModes |-> WindowModes,
       ModeArgs |-> ModeArgs,
       Disks |-> Disks,
       Structures |-> Structures,
       Registrations |-> Registrations
     ]

vars == << projectRoot, usageMap, importMap, projectFilePaths,
          normalizedProjectFilePaths, componentNameToFilesIndex,
          normalizePathCache, window, devtoolsHook, domElem, xrayReactElem, sourceFile,
          sources, fileSystem, opened, currentMode, windowMode, document, timers,
          clientIO, last >>

configVars == << projectRoot, usageMap, importMap, projectFilePaths,
                normalizedProjectFilePaths, componentNameToFilesIndex >>

\* what the render-side calls work on, and leave as it is unless they say so
objectVars == << devtoolsHook, domElem, xrayReactElem, sourceFile >>

\* the state of the companion server
serverVars == << sources, fileSystem, opened >>

\* the state of the overlay in the page
overlayVars == << currentMode, windowMode, document, timers, clientIO >>

\* an element without a fiber, no overlay, no source file
NoElem == [fiberKey |-> "none", tree |-> <<>>, ancestors |-> <<>>]

NoOverlay == [name |-> Null, path |-> Null, filteredPath |-> Null]

NoSourceFile == [path |-> <<>>, readable |-> FALSE, content |-> <<>>]

(***************************************************************************)
(* Inbound configuration calls (setProjectRoot, setUsageMap, setImportMap, *)
(* setProjectFiles).                                                       *)
(***************************************************************************)
setProjectRoot(rootPath) ==
  \E r \in {setProjectRootValue(rootPath, normalizePathCache)} :
      /\ projectRoot' = r.value
      /\ normalizePathCache' = r.cache
      /\ last' = [op |-> "setProjectRoot", arg |-> rootPath]
      /\ UNCHANGED << usageMap, importMap, projectFilePaths,
                      normalizedProjectFilePaths, componentNameToFilesIndex, window, objectVars, serverVars, overlayVars >>

setUsageMap(map) ==
  \E m \in {setMapValue(map, window.usageMap)} :
      /\ usageMap' = m
      /\ projectFilePaths' = IF projectFilePaths = {} THEN MapKeys(m)
                             ELSE projectFilePaths \cup MapKeys(m)
      /\ last' = [op |-> "setUsageMap", arg |-> map]
      /\ UNCHANGED << projectRoot, importMap, normalizedProjectFilePaths,
                      componentNameToFilesIndex, normalizePathCache, window, objectVars, serverVars, overlayVars >>

setImportMap(map) ==
  \E m \in {setMapValue(map, window.importMap)} :
      /\ importMap' = m
      /\ projectFilePaths' = projectFilePaths \cup MapKeys(m)
      /\ last' = [op |-> "setImportMap", arg |-> map]
      /\ UNCHANGED << projectRoot, usageMap, normalizedProjectFilePaths,
                      componentNameToFilesIndex, normalizePathCache, window, objectVars, serverVars, overlayVars >>

\* the file list setProjectFiles indexes
ProjectFileList(files) ==
  LET given == IF files = {} THEN <<>> ELSE TheOne(files)
  IN  IF window.projectFiles # {} /\ given = <<>> THEN TheOne(window.projectFiles)
      ELSE given

\* setProjectFiles without the two clear() calls: the list is indexed on
\* top of what the index holds
setProjectFilesNoClear(files) ==
  \E built \in {IndexFiles(ProjectFileList(files),
                    [normalized |-> normalizedProjectFilePaths,
                     index |-> componentNameToFilesIndex,
                     cache |-> normalizePathCache])} :
      /\ projectFilePaths' = Elems(ProjectFileList(files))
      /\ normalizedProjectFilePaths' = built.normalized
      /\ componentNameToFilesIndex' = built.index
      /\ normalizePathCache' = built.cache
      /\ last' = [op |-> "setProjectFiles", arg |-> files]
      /\ UNCHANGED << projectRoot, usageMap, importMap, window, objectVars, serverVars, overlayVars >>

setProjectFiles(files) ==
  \E built \in {IndexFiles(ProjectFileList(files),
                    [normalized |-> {}, index |-> {}, cache |-> normalizePathCache])} :
      /\ projectFilePaths' = Elems(ProjectFileList(files))
      /\ normalizedProjectFilePaths' = built.normalized
      /\ componentNameToFilesIndex' = built.index
      /\ normalizePathCache' = built.cache
      /\ last' = [op |-> "setProjectFiles", arg |-> files]
      /\ UNCHANGED << projectRoot, usageMap, importMap, window, objectVars, serverVars, overlayVars >>

\* the companion server before it is started
ServerDown ==
  /\ sources = {}
  /\ fileSystem = <<>>
  /\ opened = <<>>

\* the page before the overlay is ever toggled: the mode as the module is
\* loaded with (constants.js 37), nothing of the overlay in the document, no
\* callback scheduled, no socket
OverlayOff ==
  /\ currentMode = "full"
  /\ windowMode = {}
  /\ document = [enabled |-> FALSE, styleTag |-> FALSE, actionBar |-> {},
                 wrapper |-> {}, body |-> <<>>, created |-> 0]
  /\ timers = {}
  /\ clientIO = [client |-> FALSE, emitted |-> <<>>]

\* the state after the module is loaded (constants.js 30-37)
InitLoaded ==
  /\ ServerDown
  /\ OverlayOff
  /\ window \in Inputs.WindowStates
  /\ projectRoot = Null
  /\ usageMap = {}
  /\ importMap = {}
  /\ projectFilePaths = {}
  /\ normalizedProjectFilePaths = {}
  /\ componentNameToFilesIndex = {}
  /\ normalizePathCache = {}
  /\ devtoolsHook = TRUE
  /\ domElem = NoElem
  /\ xrayReactElem = NoOverlay
  /\ sourceFile = NoSourceFile
  /\ last = [op |-> "load"]

NextConfig ==
  \/ \E rootPath \in Inputs.RootArgs : setProjectRoot(rootPath)
  \/ \E map \in Inputs.UsageArgs : setUsageMap(map)
  \/ \E map \in Inputs.ImportArgs : setImportMap(map)
  \/ \E files \in Inputs.ReFilesArgs : setProjectFiles(files)

\* the configuration calls alone, from the loaded module
SpecConfig == InitLoaded /\ [][NextConfig]_vars

(***************************************************************************)
(* The states the classifier, the walker and the path builder run in: the  *)
(* module as loaded, or as configured by the four calls the client makes,  *)
(* in this order, when the companion server sends project-config,          *)
(* usage-map, import-map and project-files on connection (server.js        *)
(* 184-190, unnamed/part_001).                                             *)
(***************************************************************************)
NoWindow == [projectRoot |-> {}, usageMap |-> {}, importMap |-> {}, projectFiles |-> {}]

\* the module after setProjectRoot(rootPath), setUsageMap(usage),
\* setImportMap(imports), setProjectFiles(files) on the loaded module
Handshake(rootPath, usage, imports, files) ==
  \E r \in {setProjectRootValue(rootPath, {})} :
    \E built \in {IndexFiles(ProjectFileList(files),
                    [normalized |-> {}, index |-> {}, cache |-> r.cache])} :
      /\ projectRoot = r.value
      /\ usageMap = setMapValue(usage, window.usageMap)
      /\ importMap = setMapValue(imports, window.importMap)
      /\ projectFilePaths = Elems(ProjectFileList(files))
      /\ normalizedProjectFilePaths = built.normalized
      /\ componentNameToFilesIndex = built.index
      /\ normalizePathCache = built.cache

Loaded ==
  /\ projectRoot = Null
  /\ usageMap = {}
  /\ importMap = {}
  /\ projectFilePaths = {}
  /\ normalizedProjectFilePaths = {}
  /\ componentNameToFilesIndex = {}
  /\ normalizePathCache = {}

InitConfigured ==
  /\ ServerDown
  /\ OverlayOff
  /\ window = NoWindow
  /\ last = [op |-> "load"]
  /\ sourceFile = NoSourceFile
  /\ \/ Loaded
     \/ \E usage \in Inputs.UsageArgs \ {{}}, imports \in Inputs.ImportArgs \ {{}},
           files \in {{<<>>}} \cup (Inputs.FilesArgs \ {{}}) :
          Handshake(Paths.app, usage, imports, files)

(***************************************************************************)
(* The Project Classifier, called on its own.                              *)
(***************************************************************************)

InitClassify ==
  /\ ServerDown
  /\ OverlayOff
  /\ window = NoWindow
  /\ last = [op |-> "load"]
  /\ devtoolsHook = TRUE
  /\ domElem = NoElem
  /\ xrayReactElem = NoOverlay
  /\ sourceFile = NoSourceFile
  /\ \/ Loaded
     \/ \E rootPath \in Inputs.RootArgs \ {Null}, files \in {{<<>>}} \cup (Inputs.FilesArgs \ {{}}) :
          Handshake(rootPath, {{}}, {{}}, files)

\* isProjectComponent(fiber, projectRoot, componentName) on a node with the
\* given source origin
Classify(filePath, componentName) ==
  \E r \in {isProjectComponent([debugFile |-> filePath], projectRoot, componentName,
                                normalizePathCache)} :
      /\ normalizePathCache' = r.cache
      /\ last' = [op |-> "isProjectComponent", file |-> filePath,
                  name |-> componentName, isInternal |-> r.value]
      /\ UNCHANGED << configVars, window, objectVars, serverVars, overlayVars >>

NextClassify ==
  \E filePath \in Inputs.OriginPaths, componentName \in Inputs.ClassifyNames :
    Classify(filePath, componentName)

SpecClassify == InitClassify /\ [][NextClassify]_vars

(***************************************************************************)
(* The Render-Tree Walker, called on the fiber of an element.              *)
(***************************************************************************)

Init ==
  /\ InitConfigured
  /\ devtoolsHook = TRUE
  /\ domElem \in Inputs.FiberElems
  /\ xrayReactElem = NoOverlay

\* traverseFiberTree(fiber, maxDepth) on the fiber of domElem
Traverse(maxDepth) ==
  \E t \in {traverseFiberTree(domElem.tree, StartOf(domElem.tree), maxDepth,
                                normalizePathCache)} :
      /\ normalizePathCache' = t.loop.cache
      /\ last' = [op |-> "traverseFiberTree", maxDepth |-> maxDepth,
                  order |-> t.loop.order, depth |-> t.loop.depth, stop |-> t.loop.stop,
                  allComponents |-> t.loop.allComponents, result |-> t.result]
      /\ UNCHANGED << configVars, window, objectVars, serverVars, overlayVars >>

Next == \E maxDepth \in Inputs.DepthArgs : Traverse(maxDepth)

Spec == Init /\ [][Next]_vars

(***************************************************************************)
(* The Hierarchy Path Builder, called on an element and its overlay.       *)
(***************************************************************************)

InitPath ==
  /\ InitConfigured
  /\ \/ devtoolsHook = TRUE /\ domElem \in Inputs.FiberElems
     \/ devtoolsHook \in BOOLEAN /\ domElem \in Inputs.OtherElems
  /\ \E name \in Inputs.LeafNames :
       xrayReactElem = [name |-> IF name = <<>> THEN Null ELSE name,
                        path |-> Null, filteredPath |-> Null]

\* addAbsoluteComponentPath(elem, xrayReactElem)
AddAbsoluteComponentPath ==
  \E currentComponentName \in
       {IF Truthy(xrayReactElem.name) THEN xrayReactElem.name ELSE <<>>} :
    \E c \in {getComponentsFromElement(domElem, devtoolsHook, normalizePathCache)} :
     \E fullStructure \in {buildFullStructure(c.components, currentComponentName, domElem)} :
      \E filteredStructure \in
          {buildFilteredStructure(c.components, currentComponentName, domElem, c.cache)} :
      /\ xrayReactElem' = [xrayReactElem EXCEPT !.path = fullStructure,
                                               !.filteredPath = filteredStructure.value]
      /\ normalizePathCache' = filteredStructure.cache
      /\ last' = [op |-> "addAbsoluteComponentPath", components |-> c.components,
                  currentComponentName |-> currentComponentName,
                  fullNames |-> FullPathNames(c.components, currentComponentName, domElem),
                  filteredNames |-> filteredStructure.names]
      /\ UNCHANGED << configVars, window, devtoolsHook, domElem, sourceFile, serverVars,
                      overlayVars >>

NextPath == AddAbsoluteComponentPath

SpecPath == InitPath /\ [][NextPath]_vars

(***************************************************************************)
(* The Source Extractor, called on a file of the project.                  *)
(***************************************************************************)
InitExtract ==
  /\ ServerDown
  /\ OverlayOff
  /\ window = NoWindow
  /\ Loaded
  /\ devtoolsHook = TRUE
  /\ domElem = NoElem
  /\ xrayReactElem = NoOverlay
  /\ sourceFile \in Inputs.SourceFiles
  /\ last = [op |-> "load"]

\* extractComponentNames(filePath) on the source file
ExtractComponentNames ==
  /\ last' = [op |-> "extractComponentNames", result |-> extractComponentNames(sourceFile)]
  /\ UNCHANGED << configVars, normalizePathCache, window, objectVars, serverVars, overlayVars >>

NextExtract == ExtractComponentNames

SpecExtract == InitExtract /\ [][NextExtract]_vars

(***************************************************************************)
(* Properties of the Render-Tree Walker (specification Spec).              *)
(***************************************************************************)
Walked == last.op = "traverseFiberTree"

\* the observations a walk collected that are external / internal
ExternalsSeen == {i \in 1..Len(last.allComponents) : ~last.allComponents[i].isInternal}

InternalsSeen == {i \in 1..Len(last.allComponents) : last.allComponents[i].isInternal}

\* the observation collected i-th is in the output of the walk
Kept(i) == \E j \in 1..Len(last.result) : last.result[j] = last.allComponents[i]

\* C2: for every render tree, the walk never returns an observation whose
\* resolved name is a plain-markup tag name, compared ignoring case.
C2_NoMarkupObservation ==
  Walked => \A j \in 1..Len(last.result) :
              ToLowerCase(last.result[j].name) \notin HTML_ELEMENTS

\* a walk that ran on a node named like a markup tag and returned something
C2_Witness ==
  /\ Walked
  /\ last.result # <<>>
  /\ \E i \in 1..Len(last.order) :
       ToLowerCase(ComponentNameOf(domElem.tree[last.order[i]])) \in HTML_ELEMENTS

\* C3: for every maxDepth, the walk ends after it visited at most maxDepth
\* nodes, also when the parent/owner links form a cycle, and it visits no
\* node twice: reaching a node already visited ends it at once.
C3_WalkBounded ==
  Walked =>
    /\ Len(last.order) <= last.maxDepth
    /\ last.depth = Len(last.order)
    /\ \A i, j \in 1..Len(last.order) : i # j => last.order[i] # last.order[j]
    /\ last.stop \in {"end", "depth", "cycle"}
    /\ last.stop = "cycle" =>
         NextFiber(domElem.tree[last.order[Len(last.order)]]) \in Elems(last.order)

\* a walk that a cycle of the links ended, after more than one node
C3_Witness == Walked /\ last.stop = "cycle" /\ Len(last.order) >= 2

ListedForSomeInternal(name) ==
  \E i \in InternalsSeen :
    \E e \in usageMap \cup importMap :
      /\ Truthy(last.allComponents[i].file)
      /\ e[1] = last.allComponents[i].file
      /\ name \in Elems(e[2])

\* C8: with an entry in the usage map or in the import map, an external
\* observation is in the output of the walk exactly when its name is listed
\* in the usage-map or import-map entry of the origin file of an internal
\* observation of the same walk; every internal observation is in the
\* output, and the output is in nearest-first order.
C8_KeptIffListed ==
  (Walked /\ (usageMap # {} \/ importMap # {})) =>
    /\ \A i \in ExternalsSeen : Kept(i) <=> ListedForSomeInternal(last.allComponents[i].name)
    /\ \A i \in InternalsSeen : Kept(i)
    /\ \A j \in 1..Len(last.result) : \E i \in 1..Len(last.allComponents) :
         last.result[j] = last.allComponents[i]
    /\ \A j, k \in 1..Len(last.result) :
         j < k => last.result[j].depth < last.result[k].depth

\* a walk, with an entry in a map, that kept one external observation and
\* dropped another
C8_Witness ==
  /\ Walked
  /\ usageMap # {} \/ importMap # {}
  /\ \E i \in ExternalsSeen : Kept(i)
  /\ \E i \in ExternalsSeen : ~Kept(i)

(***************************************************************************)
(* Properties of the Project Classifier (specification SpecClassify).      *)
(***************************************************************************)
Classified == last.op = "isProjectComponent" /\ Truthy(last.file)

UnderNodeModules(filePath) == Includes(ToLowerCase(filePath), Literals.node_modules)

IsAbsolutePath(filePath) ==
  \/ filePath[1] \in {"/", "\\"}
  \/ Len(filePath) >= 2 /\ filePath[1] \in Letters /\ filePath[2] = ":"

\* C6: with a project root set, a source file that matches no external
\* marker and does not start with the project root is accepted as internal
\* only if it is not an absolute path.
C6_AbsoluteOutsideRootRejected ==
  ( /\ Classified
    /\ Truthy(projectRoot)
    /\ ~MatchesExternalPattern(last.file)
    /\ ~StartsWith(normalizePathCompute(last.file), projectRoot)
    /\ last.isInternal )
  => ~IsAbsolutePath(last.file)

(***************************************************************************)
(* Properties of the Hierarchy Path Builder (specification SpecPath).      *)
(***************************************************************************)
Built == last.op = "addAbsoluteComponentPath"

\* no two adjacent names of the path are equal ignoring case
NoAdjacentRepeat(names) ==
  \A i \in 1..(Len(names) - 1) : ToLowerCase(names[i]) # ToLowerCase(names[i + 1])

\* the names of the observations that are neither the leaf nor markup
PathCandidates ==
  SelectSeq(NamesOf(last.components),
            LAMBDA n : n # last.currentComponentName /\ ToLowerCase(n) \notin HTML_ELEMENTS)

\* C4 as stated: the full structure never holds two adjacent names that are
\* equal ignoring case.
C4_Original == Built => NoAdjacentRepeat(last.fullNames)

\* C4, amended: the full structure lists the name of every observation that
\* is neither the leaf nor markup, in order and without collapsing adjacent
\* equal names, followed by the leaf ([A, A] with leaf B gives
\* 'A -> A -> B'); the filtered structure is the one that never holds two
\* adjacent names equal ignoring case.
C4_FullKeepsRepeats ==
  Built =>
    /\ last.components # <<>> => last.fullNames = Append(PathCandidates, last.currentComponentName)
    /\ xrayReactElem.path = Join(last.fullNames, Literals.arrow)
    /\ NoAdjacentRepeat(last.filteredNames)
    /\ xrayReactElem.filteredPath = Join(last.filteredNames, Literals.arrow)

\* a path built from observations with two adjacent equal names that are
\* not the leaf
C4_Witness ==
  /\ Built
  /\ Len(last.fullNames) >= 3
  /\ last.fullNames[1] = last.fullNames[2]
  /\ Len(last.filteredNames) = 2

\* C9: for every observation list, the empty one included, and every
\* non-empty leaf name, the full and the filtered structure are non-empty
\* strings.
C9_NonEmptyStructures ==
  (Built /\ last.currentComponentName # <<>>) =>
    xrayReactElem.path # <<>> /\ xrayReactElem.filteredPath # <<>>

\* a path built for a non-empty leaf from the empty observation list, with
\* no name found among the DOM ancestors either
C9_Witness ==
  /\ Built
  /\ last.currentComponentName # <<>>
  /\ last.components = <<>>
  /\ xrayReactElem.filteredPath = last.currentComponentName

\* an invocation of the Path Builder on the element and its overlay
BuildStep == last'.op = "addAbsoluteComponentPath"

\* a second invocation in a row
BuildAgain == last.op = "addAbsoluteComponentPath" /\ BuildStep

SameOutput ==
  /\ last'.components = last.components
  /\ xrayReactElem'.path = xrayReactElem.path
  /\ xrayReactElem'.filteredPath = xrayReactElem.filteredPath

\* C10 as stated: a second invocation on the same observations and leaf
\* gives the same two strings, and an invocation changes no process-wide
\* state that the next one reads.
C10_Original ==
  [][ /\ BuildAgain => SameOutput
      /\ BuildStep => UNCHANGED << configVars, normalizePathCache >> ]_vars

\* C10, amended: a second invocation on the same observations and leaf
\* gives the same two strings; an invocation changes no process-wide state
\* that the next one reads except the memo of normalizePath, to which it
\* only adds entries, each holding the value normalizePath computes for its
\* key.
C10_IdempotentUpToMemo ==
  [][ /\ BuildAgain => SameOutput
      /\ BuildStep =>
           /\ UNCHANGED configVars
           /\ normalizePathCache \subseteq normalizePathCache'
           /\ \A e \in normalizePathCache' \ normalizePathCache :
                e[2] = ToLowerCase(TrimSlashes(ReplaceBackslashes(e[1]))) ]_vars

\* a path built in a module without project root, whose memo the builder
\* filled
C10_Witness ==
  /\ Built
  /\ projectRoot = Null
  /\ normalizePathCache # {}
  /\ Len(last.filteredNames) >= 2

(***************************************************************************)
(* Properties of the Source Extractor (specification SpecExtract).         *)
(***************************************************************************)
Extracted ==
  /\ last.op = "extractComponentNames"
  /\ sourceFile.readable
  /\ ~shouldExcludeFile(sourceFile.path)

\* the names the rule yields on the source file: its captures that are not
\* excluded
RuleNames(rule) ==
  { CapturedAt(rule, sourceFile.content, i) :
      i \in {k \in 1..Len(sourceFile.content) :
               /\ RuleMatchesAt(rule, sourceFile.content, k)
               /\ (rule <= 3 => \A h \in 1..(k - 1) : ~RuleMatchesAt(rule, sourceFile.content, h))
               /\ ~shouldExcludeName(CapturedAt(rule, sourceFile.content, k))} }

ExportRules == 1..6

\* the highest-priority rule that yields the name
FirstRuleOf(name) == CHOOSE r \in 1..7 : name \in RuleNames(r) /\ \A q \in 1..(r - 1) : name \notin RuleNames(q)

\* C1 as stated: the result holds only the names of the highest-priority
\* rule that yields a match; names of lower-priority rules are not returned.
C1_Original ==
  Extracted =>
    \A r \in ExportRules :
      (RuleNames(r) # {} /\ \A q \in 1..(r - 1) : RuleNames(q) = {})
        => Elems(last.result) = RuleNames(r)

\* C1, amended: the result holds the names of all six exported-declaration
\* rules, ordered by the priority of the first rule that yields each (text
\* with a default-exported function Foo and an exported function-like
\* constant Bar gives [Foo, Bar]); the names of the local-constant rule are
\* returned only when no exported rule yields a name, and the base name of
\* the file only when no rule yields one.
C1_AllExportRules ==
  Extracted =>
    /\ (\E r \in ExportRules : RuleNames(r) # {})
         => Elems(last.result) = UNION {RuleNames(r) : r \in ExportRules}
    /\ ((\A r \in ExportRules : RuleNames(r) = {}) /\ RuleNames(7) # {})
         => Elems(last.result) = RuleNames(7)
    /\ (\A r \in 1..7 : RuleNames(r) = {})
         => last.result = IF shouldExcludeName(BasenameWithoutExt(sourceFile.path))
                            THEN <<>> ELSE <<BasenameWithoutExt(sourceFile.path)>>
    /\ (\E r \in 1..7 : RuleNames(r) # {})
         => \A i, j \in 1..Len(last.result) :
              i < j => FirstRuleOf(last.result[i]) <= FirstRuleOf(last.result[j])

\* an extraction from a text with a default-exported function Foo and an
\* exported function-like constant Bar
C1_Witness ==
  /\ Extracted
  /\ RuleNames(1) = {Names.Foo}
  /\ RuleNames(4) = {Names.Bar}
  /\ last.result = <<Names.Foo, Names.Bar>>

(***************************************************************************)
(* Properties of the configuration calls (specification SpecConfig).       *)
(***************************************************************************)
\* the value an argument holds: the empty map for null/undefined
Supplied(arg) == IF arg = {} THEN {} ELSE TheOne(arg)

\* the file list an argument holds: the empty list for null/undefined
SuppliedList(arg) == IF arg = {} THEN <<>> ELSE TheOne(arg)

\* the project root as stored for a supplied root: normalized, null for none
StoredRoot(arg) == IF Truthy(arg) THEN normalizePathCompute(arg) ELSE Null

\* the value stored for a supplied one when the window global of the
\* category is consulted: the global when the supplied value is empty
OrGlobal(value, empty, global) ==
  IF value = empty /\ global # {} THEN TheOne(global) ELSE value

\* the step repeats the call made last, with the same value
SameCallAgain == last.op = last'.op /\ last.arg = last'.arg

\* C18 as stated: each configuration call replaces the stored value of its
\* own category by the value supplied (the root in normalized form), an
\* empty or null value included, leaves the stored values of the other
\* categories unchanged, and changes nothing when it is repeated.
C18_Original ==
  [][ /\ last'.op = "setProjectRoot" =>
           /\ projectRoot' = StoredRoot(last'.arg)
           /\ UNCHANGED << usageMap, importMap, projectFilePaths,
                           normalizedProjectFilePaths, componentNameToFilesIndex >>
      /\ last'.op = "setUsageMap" =>
           /\ usageMap' = Supplied(last'.arg)
           /\ UNCHANGED << projectRoot, importMap, projectFilePaths,
                           normalizedProjectFilePaths, componentNameToFilesIndex >>
      /\ last'.op = "setImportMap" =>
           /\ importMap' = Supplied(last'.arg)
           /\ UNCHANGED << projectRoot, usageMap, projectFilePaths,
                           normalizedProjectFilePaths, componentNameToFilesIndex >>
      /\ last'.op = "setProjectFiles" =>
           /\ projectFilePaths' = Elems(SuppliedList(last'.arg))
           /\ UNCHANGED << projectRoot, usageMap, importMap >>
      /\ SameCallAgain => UNCHANGED configVars ]_vars

\* C18, amended: each configuration call stores the value supplied (the
\* root in normalized form) unless that value is empty or null and the
\* window global of the category is defined, in which case it stores the
\* global's value; setUsageMap and setImportMap also add the file paths of
\* the map they store to the project file paths; the stored project root
\* and maps of the other categories, and for the map calls the Project File
\* Index, are unchanged; a call repeated with the same value changes
\* nothing.
C18_ReplacesOrFallsBack ==
  [][ /\ last'.op = "setProjectRoot" =>
           /\ projectRoot' =
                IF ~Truthy(StoredRoot(last'.arg)) /\ window.projectRoot # {}
                  THEN StoredRoot(TheOne(window.projectRoot))
                ELSE StoredRoot(last'.arg)
           /\ UNCHANGED << usageMap, importMap, projectFilePaths,
                           normalizedProjectFilePaths, componentNameToFilesIndex >>
      /\ last'.op = "setUsageMap" =>
           /\ usageMap' = OrGlobal(Supplied(last'.arg), {}, window.usageMap)
           /\ projectFilePaths' = projectFilePaths \cup MapKeys(usageMap')
           /\ UNCHANGED << projectRoot, importMap,
                           normalizedProjectFilePaths, componentNameToFilesIndex >>
      /\ last'.op = "setImportMap" =>
           /\ importMap' = OrGlobal(Supplied(last'.arg), {}, window.importMap)
           /\ projectFilePaths' = projectFilePaths \cup MapKeys(importMap')
           /\ UNCHANGED << projectRoot, usageMap,
                           normalizedProjectFilePaths, componentNameToFilesIndex >>
      /\ last'.op = "setProjectFiles" =>
           /\ projectFilePaths' =
                Elems(OrGlobal(SuppliedList(last'.arg), <<>>, window.projectFiles))
           /\ normalizedProjectFilePaths' =
                {normalizePathCompute(f) : f \in projectFilePaths'}
           /\ UNCHANGED << projectRoot, usageMap, importMap >>
      /\ SameCallAgain => UNCHANGED configVars ]_vars

\* setUsageMap was called with an empty map while the window global of the
\* category is defined, and the map of the global is what is stored
C18_Witness ==
  /\ last.op = "setUsageMap"
  /\ last.arg = {{}}
  /\ window.usageMap # {}
  /\ usageMap = TheOne(window.usageMap)
  /\ usageMap # {}
  /\ MapKeys(usageMap) \subseteq projectFilePaths

(***************************************************************************)
(* The overlay: display mode, toggling, the batches an activation runs,    *)
(* and the listeners of the page.                                          *)
(***************************************************************************)
\* a getCurrentMode() that trusts the global
getCurrentModeUnchecked(global) == IF global # {} THEN TheOne(global) ELSE "full"

\* getCurrentMode(): `global` is window.__XRAY_REACT_MODE__, a set holding
\* its value, empty when it is not defined
getCurrentMode(global) ==
  IF global # {} /\ TheOne(global) # ""
    THEN IF TheOne(global) \in {"full", "simple"} THEN TheOne(global) ELSE "full"
  ELSE "full"

\* getComponentObj(elem): the name and uid it returns (Null for a name it
\* does not return, <<>> for no uid), and the memo.  The branches for
\* instances of React before 16 (_currentElement, _reactInternalFiber) are
\* not taken by the elements of the model.
getComponentObj(elem, hook, cache) ==
  LET Obj(found) ==
        IF found.components # <<>>
          THEN [name |-> found.components[Len(found.components)].name,
                uid |-> IF hook /\ elem.fiberKey # "none" THEN elem.uid ELSE <<>>,
                cache |-> found.cache]
        ELSE IF isHTMLElement(ToLowerCase(elem.tagName))
          THEN [name |-> ToLowerCase(elem.tagName), uid |-> <<>>, cache |-> found.cache]
        ELSE [name |-> Null, uid |-> <<>>, cache |-> found.cache]
  IN  Obj(getComponentsFromElement(elem, hook, cache))

\* the loop of processBatch over allElements[i .. endIndex - 1] (positions
\* counted from 0), with searchAndCreateComponent and createElemForComponent
\* inlined; t is the closure of the activation: its number `act`, `index`,
\* `pathIndex`, the `uids` seen and the `xrayReactObjects` collected, and,
\* as a record of what the loops did, the positions of allElements handed
\* to searchAndCreateComponent (`handled`) and those of xrayReactObjects
\* handed to addAbsoluteComponentPath (`pathsBuilt`), in the order of the
\* calls
RECURSIVE BatchLoop(_, _, _, _, _)
BatchLoop(allElements, i, endIndex, t, cache) ==
  IF i >= endIndex THEN [t |-> [t EXCEPT !.index = endIndex], cache |-> cache]
  ELSE
    LET Step(obj) ==
          LET create == /\ Truthy(obj.name)
                        /\ obj.name # Literals.Unknown
                        /\ (Truthy(obj.uid) => obj.uid \notin t.uids)
              made == [elem |-> allElements[i + 1],
                       xrayReactElem |-> [name |-> obj.name, path |-> Null,
                                          filteredPath |-> Null, act |-> t.act]]
          IN  BatchLoop(allElements, i + 1, endIndex,
                [t EXCEPT !.handled = Append(@, i + 1),
                          !.uids = IF create /\ Truthy(obj.uid) THEN @ \cup {obj.uid} ELSE @,
                          !.xrayReactObjects = IF create THEN Append(@, made) ELSE @],
                obj.cache)
    IN  Step(getComponentObj(allElements[i + 1], devtoolsHook, cache))

\* addAbsoluteComponentPath(elem, xrayReactElem): the overlay with both
\* attributes set, and the memo
addAbsoluteComponentPath(elem, overlay, hook, cache) ==
  LET name == IF Truthy(overlay.name) THEN overlay.name ELSE <<>>
      Set(c) ==
        LET Filled(filteredStructure) ==
              [xrayReactElem |->
                 [overlay EXCEPT !.path = buildFullStructure(c.components, name, elem),
                                 !.filteredPath = filteredStructure.value],
               cache |-> filteredStructure.cache]
        IN  Filled(buildFilteredStructure(c.components, name, elem, c.cache))
  IN  Set(getComponentsFromElement(elem, hook, cache))

\* the loop of processPaths over xrayReactObjects[i .. endIndex - 1]
RECURSIVE PathLoop(_, _, _, _)
PathLoop(i, endIndex, t, cache) ==
  IF i >= endIndex THEN [t |-> [t EXCEPT !.pathIndex = endIndex], cache |-> cache]
  ELSE
    LET Step(r) ==
          PathLoop(i + 1, endIndex,
                   [t EXCEPT !.pathsBuilt = Append(@, i + 1),
                             !.xrayReactObjects[i + 1].xrayReactElem = r.xrayReactElem],
                   r.cache)
    IN  Step(addAbsoluteComponentPath(t.xrayReactObjects[i + 1].elem,
                                      t.xrayReactObjects[i + 1].xrayReactElem,
                                      devtoolsHook, cache))

\* setMode(mode)
SetMode(mode) ==
  /\ currentMode' = IF mode \in {"full", "simple"} THEN mode ELSE "full"
  /\ windowMode' = {currentMode'}
  /\ last' = [op |-> "setMode", arg |-> mode]
  /\ UNCHANGED << configVars, normalizePathCache, window, objectVars, serverVars,
                  document, timers, clientIO >>

\* toggleXrayReact(): the overlay is removed from a page that has it, and
\* set up on a page that has none.  A pending timer is the closure that
\* processElementsAsync creates for the activation, with the function to
\* call as `kind`: "simpleMode" (constants.js 1005-1010), "processBatch" or
\* "processPaths".  allElements is read from document.body when a batch
\* runs: the page elements of the model do not change after the page is
\* loaded.
toggleXrayReact ==
  IF document.enabled
    THEN /\ document' = [document EXCEPT !.enabled = FALSE, !.wrapper = {},
                                         !.actionBar = {}, !.styleTag = FALSE]
         /\ UNCHANGED << currentMode, timers >>
  ELSE
    /\ document.created < MaxActivations
    /\ \E mode \in {getCurrentMode(windowMode)} :
         /\ currentMode' = mode
         /\ document' =
              [document EXCEPT
                 !.enabled = TRUE,
                 !.styleTag = TRUE,
                 !.actionBar = {[simple |-> mode = "simple"]},
                 !.wrapper = {[id |-> document.created + 1, simple |-> mode = "simple",
                               temp |-> TRUE, children |-> <<>>]},
                 !.created = @ + 1]
         /\ timers' = timers \cup
              { [kind |-> kind, act |-> document.created + 1, index |-> 0,
                 pathIndex |-> 0, uids |-> {}, xrayReactObjects |-> <<>>,
                 handled |-> <<>>, pathsBuilt |-> <<>>] :
                kind \in {"processBatch"} \cup
                         (IF mode = "simple" /\ document.actionBar = {}
                            THEN {"simpleMode"} ELSE {}) }

\* a keydown handler in which Escape toggles any page
KeydownEscapeToggles(key) ==
  /\ last' = [op |-> "keydown", arg |-> key, enabled |-> document.enabled]
  /\ IF key = "shortcut" \/ key = "Escape"
       THEN toggleXrayReact
     ELSE UNCHANGED << currentMode, document, timers >>
  /\ UNCHANGED << configVars, normalizePathCache, window, objectVars, serverVars,
                  windowMode, clientIO >>

\* the keydown handler: Escape toggles a page that has the overlay, the
\* shortcut (Cmd/Ctrl+Shift+X) toggles any page, other keys do nothing;
\* `enabled` records whether the page had the overlay when the key came
Keydown(key) ==
  /\ last' = [op |-> "keydown", arg |-> key, enabled |-> document.enabled]
  /\ IF key = "shortcut" \/ (key = "Escape" /\ document.enabled)
       THEN toggleXrayReact
     ELSE UNCHANGED << currentMode, document, timers >>
  /\ UNCHANGED << configVars, normalizePathCache, window, objectVars, serverVars,
                  windowMode, clientIO >>

\* the callback scheduled at constants.js 1005
SimpleModeTimer(t) ==
  /\ t.kind = "simpleMode"
  /\ timers' = timers \ {t}
  /\ document' = [document EXCEPT
                    !.actionBar = {[bar EXCEPT !.simple = TRUE] : bar \in @}]
  /\ UNCHANGED << configVars, normalizePathCache, window, objectVars, serverVars,
                  currentMode, windowMode, clientIO, last >>

\* a processBatch that handles all the remaining elements at once
ProcessBatchAll(t) ==
  /\ t.kind = "processBatch"
  /\ \E endIndex \in {Len(document.body)} :
      \E r \in {BatchLoop(document.body, t.index, endIndex, t, normalizePathCache)} :
       /\ normalizePathCache' = r.cache
       /\ timers' = (timers \ {t}) \cup {[r.t EXCEPT !.kind = "processPaths"]}
  /\ UNCHANGED << configVars, window, objectVars, serverVars,
                  currentMode, windowMode, document, clientIO, last >>

\* a processBatch that gives up instead of scheduling a further batch
ProcessBatchAborts(t) ==
  /\ t.kind = "processBatch"
  /\ \E endIndex \in {IF t.index + batchSize < Len(document.body)
                         THEN t.index + batchSize ELSE Len(document.body)} :
      \E r \in {BatchLoop(document.body, t.index, endIndex, t, normalizePathCache)} :
       /\ normalizePathCache' = r.cache
       /\ timers' = (timers \ {t}) \cup
            (IF endIndex < Len(document.body) THEN {}
             ELSE {[r.t EXCEPT !.kind = "processPaths"]})
  /\ UNCHANGED << configVars, window, objectVars, serverVars,
                  currentMode, windowMode, document, clientIO, last >>

\* processBatch
ProcessBatch(t) ==
  /\ t.kind = "processBatch"
  /\ \E endIndex \in {IF t.index + batchSize < Len(document.body)
                         THEN t.index + batchSize ELSE Len(document.body)} :
      \E r \in {BatchLoop(document.body, t.index, endIndex, t, normalizePathCache)} :
       /\ normalizePathCache' = r.cache
       /\ timers' = (timers \ {t}) \cup
            {[r.t EXCEPT !.kind = IF endIndex < Len(document.body) THEN "processBatch"
                                 ELSE "processPaths"]}
  /\ UNCHANGED << configVars, window, objectVars, serverVars,
                  currentMode, windowMode, document, clientIO, last >>

\* processPaths
ProcessPaths(t) ==
  /\ t.kind = "processPaths"
  /\ \E endIndex \in {IF t.pathIndex + pathBatchSize < Len(t.xrayReactObjects)
                         THEN t.pathIndex + pathBatchSize
                       ELSE Len(t.xrayReactObjects)} :
      \E r \in {PathLoop(t.pathIndex, endIndex, t, normalizePathCache)} :
       /\ normalizePathCache' = r.cache
       /\ IF endIndex < Len(t.xrayReactObjects)
            THEN /\ timers' = (timers \ {t}) \cup {r.t}
                 /\ UNCHANGED document
          ELSE /\ timers' = timers \ {t}
               /\ document' =
                    [document EXCEPT
                       !.wrapper =
                          {[w EXCEPT !.temp = FALSE,
                                     !.children = @ \o
                                        [i \in 1..Len(r.t.xrayReactObjects) |->
                                           r.t.xrayReactObjects[i].xrayReactElem]] :
                             w \in @}]
  /\ UNCHANGED << configVars, window, objectVars, serverVars,
                  currentMode, windowMode, clientIO, last >>

\* the elements of class xray-react-element in the document: the overlay
\* elements attached to the wrapper, and the loading element (which has no
\* attribute) while it is there
OverlayTargets ==
  UNION { {w.children[i] : i \in 1..Len(w.children)}
            \cup (IF w.temp THEN {[NoOverlay EXCEPT !.name = <<>>]} ELSE {}) :
          w \in document.wrapper }

\* a click listener that reads the filtered-structure attribute
ClickFiltered(target) ==
  /\ clientIO.client
  /\ Len(clientIO.emitted) < MaxEmitted
  /\ last' = [op |-> "click", arg |-> target]
  /\ IF Truthy(target.filteredPath)
       THEN clientIO' = [clientIO EXCEPT !.emitted = Append(@, target.filteredPath)]
     ELSE UNCHANGED clientIO
  /\ UNCHANGED << configVars, normalizePathCache, window, objectVars, serverVars,
                  currentMode, windowMode, document, timers >>

\* the click listener of initIOAndListeners, registered when the socket was
\* set up
Click(target) ==
  /\ clientIO.client
  /\ Len(clientIO.emitted) < MaxEmitted
  /\ last' = [op |-> "click", arg |-> target]
  /\ IF Truthy(target.path)
       THEN clientIO' = [clientIO EXCEPT !.emitted = Append(@, target.path)]
     ELSE UNCHANGED clientIO
  /\ UNCHANGED << configVars, normalizePathCache, window, objectVars, serverVars,
                  currentMode, windowMode, document, timers >>

\* onXrayReactMouseover, listening while the page has the overlay; `shown`
\* is the text it puts in the action bar
onXrayReactMouseover(target) ==
  /\ document.enabled
  /\ last' = [op |-> "mouseover", arg |-> target,
              shown |-> IF Truthy(target.filteredPath) THEN target.filteredPath
                        ELSE IF Truthy(target.path) THEN target.path
                        ELSE <<>>]
  /\ UNCHANGED << configVars, normalizePathCache, window, objectVars, serverVars,
                  overlayVars >>

\* the page after part_002 ran enableXrayReact() and the server configured
\* the module on connection
InitOverlay ==
  /\ ServerDown
  /\ window = NoWindow
  /\ \E usage \in Inputs.UsageArgs \ {{}} :
       Handshake(Paths.app, usage, {{}}, {<<>>})
  /\ devtoolsHook = TRUE
  /\ domElem = NoElem
  /\ xrayReactElem = NoOverlay
  /\ sourceFile = NoSourceFile
  /\ windowMode \in Inputs.WindowModes
  /\ currentMode = getCurrentMode(windowMode)
  /\ \E page \in Inputs.Pages :
       document = [enabled |-> FALSE, styleTag |-> FALSE, actionBar |-> {},
                   wrapper |-> {}, body |-> page, created |-> 0]
  /\ timers = {}
  /\ clientIO \in {[client |-> c, emitted |-> <<>>] : c \in BOOLEAN}
  /\ last = [op |-> "enableXrayReact"]

NextOverlay ==
  \/ \E mode \in Inputs.ModeArgs : SetMode(mode)
  \/ \E key \in {"shortcut", "Escape", "a"} : Keydown(key)
  \/ \E t \in timers : SimpleModeTimer(t)
  \/ \E t \in timers : ProcessBatch(t)
  \/ \E t \in timers : ProcessPaths(t)
  \/ \E target \in OverlayTargets : Click(target)
  \/ \E target \in OverlayTargets : onXrayReactMouseover(target)

SpecOverlay == InitOverlay /\ [][NextOverlay]_vars


\* the pages of InitOverlay that have a socket, no mode injected by the
\* plugin and a usage map pushed by the server
InitPage ==
  /\ InitOverlay
  /\ windowMode = {}
  /\ clientIO.client
  /\ usageMap # {}

\* the page with its event loop: a callback scheduled with setTimeout is
\* run once it is due, whatever events arrive in between.  This is weak
\* fairness of the callbacks of every activation, written out: a callback
\* is enabled exactly while it is pending (SimpleModeTimer, ProcessBatch
\* and ProcessPaths have no other guard), and a step runs one exactly when
\* a pending closure is no longer pending after it.
SpecOverlayLive ==
  /\ InitPage
  /\ [][NextOverlay]_vars
  /\ \A act \in 1..MaxActivations :
       \/ []<>(\A t \in timers : t.act # act)
       \/ []<><<\E t \in timers : t.act = act /\ t \notin timers'>>_vars
(***************************************************************************)
(* The project root of a page that may have no companion server:           *)
(* enableXrayReact, the detection it defers, and setProjectRoot.  In this  *)
(* specification `last` is the log of the configuration: a step of         *)
(* enableXrayReact or of the detection logs, as `configured`, the argument *)
(* of the most recent setProjectRoot call (a set, empty when there was     *)
(* none), and the project root it found, as `before`.                      *)
(***************************************************************************)
\* detectProjectRootFromDOM() past its first test: the root the fibers of
\* the page give (Null when they give none) and the memo afterwards, with
\* detectProjectRootFromPaths inlined.  The walk of a node follows `return`
\* for at most 10 nodes; nodes are taken while fewer than maxSamples fibers
\* were looked at.
DetectedRoot(body, cache) ==
  LET maxSamples == 50
      \* the walk from fiber f of the tree: the file paths pushed, the
      \* fibers looked at, the memo
      RECURSIVE FiberWalk(_, _, _, _)
      FiberWalk(tree, f, depth, acc) ==
        IF f = 0 \/ depth >= 10 THEN acc
        ELSE
          LET Pushed(external) ==
                [filePaths |-> IF external.value THEN acc.filePaths
                               ELSE Append(acc.filePaths, tree[f].debugFile),
                 samples |-> acc.samples + 1, cache |-> external.cache]
          IN  IF Truthy(tree[f].debugFile)
                THEN FiberWalk(tree, tree[f].return, depth + 1,
                               Pushed(isExternalPath(tree[f].debugFile, acc.cache)))
              ELSE FiberWalk(tree, tree[f].return, depth + 1,
                             [acc EXCEPT !.samples = @ + 1])
      RECURSIVE NodeWalk(_, _)
      NodeWalk(i, acc) ==
        IF i > Len(body) \/ acc.samples >= maxSamples THEN acc
        ELSE IF body[i].fiberKey # "none"
          THEN LET Onward(next) == NodeWalk(i + 1, next)
               IN  Onward(FiberWalk(body[i].tree, StartOf(body[i].tree), 0, acc))
        ELSE NodeWalk(i + 1, acc)
      \* filePaths.filter(path => path && !isExternalPath(path)).map(normalizePath)
      RECURSIVE ProjectPaths(_, _, _)
      ProjectPaths(filePaths, i, acc) ==
        IF i > Len(filePaths) THEN acc
        ELSE IF ~Truthy(filePaths[i]) THEN ProjectPaths(filePaths, i + 1, acc)
        ELSE
          LET external == isExternalPath(filePaths[i], acc.cache)
              n == normalizePath(filePaths[i], external.cache)
          IN  IF external.value
                THEN ProjectPaths(filePaths, i + 1, [acc EXCEPT !.cache = external.cache])
              ELSE ProjectPaths(filePaths, i + 1,
                     [paths |-> Append(acc.paths, n.value), cache |-> n.cache])
      detectProjectRootFromPaths(projectPaths) ==
        LET pathParts == [k \in 1..Len(projectPaths) |-> Split(projectPaths[k], {"/"})]
            minLength == CHOOSE n \in {Len(pathParts[k]) : k \in 1..Len(pathParts)} :
                           \A k \in 1..Len(pathParts) : n <= Len(pathParts[k])
            common == CHOOSE n \in 0..minLength :
                        /\ \A i \in 1..n : \A k \in 1..Len(pathParts) :
                             pathParts[k][i] = pathParts[1][i]
                        /\ n < minLength =>
                             \E k \in 1..Len(pathParts) :
                               pathParts[k][n + 1] # pathParts[1][n + 1]
            slashes == {i \in 1..Len(projectPaths[1]) : projectPaths[1][i] = "/"}
            lastSlash == CHOOSE i \in slashes : \A j \in slashes : j <= i
        IN  IF projectPaths = <<>> THEN Null
            ELSE IF common > 0
              THEN <<"/">> \o Join(SubSeq(pathParts[1], 1, common), <<"/">>)
            ELSE IF slashes # {} /\ lastSlash > 1
              THEN <<"/">> \o SubSeq(projectPaths[1], 1, lastSlash - 1)
            ELSE Null
      Detected(walk) ==
        LET From(project) ==
              [value |-> detectProjectRootFromPaths(project.paths), cache |-> project.cache]
        IN  IF walk.filePaths = <<>> THEN [value |-> Null, cache |-> walk.cache]
            ELSE From(ProjectPaths(walk.filePaths, 1, [paths |-> <<>>, cache |-> walk.cache]))
  IN  Detected(NodeWalk(1, [filePaths |-> <<>>, samples |-> 0, cache |-> cache]))

\* the argument of the most recent setProjectRoot call, as the log has it
Configured ==
  IF last.op = "setProjectRoot" THEN {last.arg}
  ELSE IF last.op = "load" THEN {}
  ELSE last.configured

\* enableXrayReact(): the mode is read; a page without a project root
\* takes the one of the window global, or defers the detection by a second.
\* The keydown listener it registers is that of the overlay (Keydown).
enableXrayReact ==
  /\ currentMode' = getCurrentMode(windowMode)
  /\ IF Truthy(projectRoot)
       THEN UNCHANGED << projectRoot, normalizePathCache, timers >>
     ELSE IF window.projectRoot # {} /\ Truthy(TheOne(window.projectRoot))
       THEN /\ \E n \in {normalizePath(TheOne(window.projectRoot), normalizePathCache)} :
                 /\ projectRoot' = n.value
                 /\ normalizePathCache' = n.cache
            /\ UNCHANGED timers
     ELSE /\ Cardinality(timers) < MaxDetections
          /\ timers' = timers \cup
               {[kind |-> "detectProjectRootFromDOM",
                 act |-> CHOOSE n \in 1..MaxDetections : \A t \in timers : t.act # n]}
          /\ UNCHANGED << projectRoot, normalizePathCache >>
  /\ last' = [op |-> "enableXrayReact", configured |-> Configured, before |-> projectRoot]
  /\ UNCHANGED << usageMap, importMap, projectFilePaths, normalizedProjectFilePaths,
                  componentNameToFilesIndex, window, objectVars, serverVars,
                  windowMode, document, clientIO >>

\* a detection that does not look at the project root first
detectProjectRootFromDOMAlways(t) ==
  /\ t.kind = "detectProjectRootFromDOM"
  /\ timers' = timers \ {t}
  /\ \E detected \in {DetectedRoot(document.body, normalizePathCache)} :
       /\ projectRoot' = IF Truthy(detected.value) THEN detected.value ELSE projectRoot
       /\ normalizePathCache' = detected.cache
  /\ last' = [op |-> "detectProjectRootFromDOM", configured |-> Configured,
              before |-> projectRoot]
  /\ UNCHANGED << usageMap, importMap, projectFilePaths, normalizedProjectFilePaths,
                  componentNameToFilesIndex, window, objectVars, serverVars,
                  currentMode, windowMode, document, clientIO >>

\* the deferred callback: detectProjectRootFromDOM()
detectProjectRootFromDOM(t) ==
  /\ t.kind = "detectProjectRootFromDOM"
  /\ timers' = timers \ {t}
  /\ IF Truthy(projectRoot) THEN UNCHANGED << projectRoot, normalizePathCache >>
     ELSE \E detected \in {DetectedRoot(document.body, normalizePathCache)} :
            /\ projectRoot' = IF Truthy(detected.value) THEN detected.value
                              ELSE projectRoot
            /\ normalizePathCache' = detected.cache
  /\ last' = [op |-> "detectProjectRootFromDOM", configured |-> Configured,
              before |-> projectRoot]
  /\ UNCHANGED << usageMap, importMap, projectFilePaths, normalizedProjectFilePaths,
                  componentNameToFilesIndex, window, objectVars, serverVars,
                  currentMode, windowMode, document, clientIO >>

\* the module as loaded into a page
InitRoot ==
  /\ ServerDown
  /\ Loaded
  /\ window \in Inputs.WindowStates
  /\ devtoolsHook = TRUE
  /\ domElem = NoElem
  /\ xrayReactElem = NoOverlay
  /\ sourceFile = NoSourceFile
  /\ windowMode \in Inputs.WindowModes
  /\ currentMode = "full"
  /\ \E page \in Inputs.Pages :
       document = [enabled |-> FALSE, styleTag |-> FALSE, actionBar |-> {},
                   wrapper |-> {}, body |-> page, created |-> 0]
  /\ timers = {}
  /\ clientIO = [client |-> FALSE, emitted |-> <<>>]
  /\ last = [op |-> "load"]

NextRoot ==
  \/ enableXrayReact
  \/ \E t \in timers : detectProjectRootFromDOM(t)
  \/ \E rootPath \in Inputs.RootArgs : setProjectRoot(rootPath)

SpecRoot == InitRoot /\ [][NextRoot]_vars
(***************************************************************************)
(* Properties of the overlay (specification SpecOverlay).                  *)
(***************************************************************************)
\* C20: in every reachable state the current display mode is 'full' or
\* 'simple'; after setMode with any other value it is 'full', and after an
\* activation with any other value in window.__XRAY_REACT_MODE__, or with
\* none, it is 'full'.
C20_ModeFullOrSimple ==
  /\ currentMode \in {"full", "simple"}
  /\ (last.op = "setMode" /\ last.arg \notin {"full", "simple"}) => currentMode = "full"
  /\ (last.op = "keydown" /\ document.enabled /\ windowMode \notin {{"full"}, {"simple"}})
       => currentMode = "full"

\* the overlay was activated with window.__XRAY_REACT_MODE__ = 'compact'
C20_Witness ==
  /\ last.op = "keydown"
  /\ document.enabled
  /\ windowMode = {"compact"}
  /\ currentMode = "full"

\* the step is a click on an element of class xray-react-element
ClickStep == last'.op = "click" /\ (last' # last \/ clientIO' # clientIO)

\* what the step adds to the messages emitted on 'xray-react-component'
Emitted(path) == clientIO'.emitted = clientIO.emitted \o path

\* C11 as stated: a click on an overlay element sends the element's
\* filtered structure when that is non-empty, and its full structure only
\* otherwise.
C11_Original ==
  [][ClickStep =>
       Emitted(IF Truthy(last'.arg.filteredPath) THEN <<last'.arg.filteredPath>>
               ELSE IF Truthy(last'.arg.path) THEN <<last'.arg.path>>
               ELSE <<>>)]_vars

\* C11, amended: a click on an overlay element sends the element's full
\* structure, whatever its filtered structure is, and sends nothing for an
\* element that has no full structure (the loading placeholder); the
\* filtered structure is preferred, with the full structure as fallback,
\* only in the text shown on mouseover.
C11_ClickSendsFull ==
  [][ /\ ClickStep =>
           Emitted(IF Truthy(last'.arg.path) THEN <<last'.arg.path>> ELSE <<>>)
      /\ (last'.op = "mouseover" /\ Truthy(last'.arg.filteredPath)) =>
           last'.shown = last'.arg.filteredPath
      /\ (last'.op = "mouseover" /\ ~Truthy(last'.arg.filteredPath)
            /\ Truthy(last'.arg.path)) =>
           last'.shown = last'.arg.path ]_vars

\* an overlay element whose two structures differ was clicked and its full
\* structure was sent
C11_Witness ==
  /\ last.op = "click"
  /\ Truthy(last.arg.filteredPath)
  /\ last.arg.filteredPath # last.arg.path
  /\ clientIO.emitted = <<last.arg.path>>

\* activation `act` was toggled off
ToggledOff(act) ==
  act < document.created \/ (act = document.created /\ ~document.enabled)

\* C19: once the overlay was toggled off while an activation was in flight,
\* no overlay element produced by that activation is attached to the
\* document, whatever toggles follow.
C19_DiscardedAfterToggleOff ==
  \A w \in document.wrapper :
    \A i \in 1..Len(w.children) : ~ToggledOff(w.children[i].act)

(***************************************************************************)
(* The companion server: the Source Map, the Disambiguator and the         *)
(* handlers of the socket.  Its project root is /app.                      *)
(***************************************************************************)
\* getFilePriority(filePath)
getFilePriority(filePath) ==
  IF shouldExcludeFile(filePath) THEN 0
  ELSE IF EndsWith(filePath, <<".", "t", "s", "x">>)
            \/ EndsWith(filePath, <<".", "j", "s", "x">>) THEN 3
  ELSE IF EndsWith(filePath, <<".", "t", "s">>) \/ EndsWith(filePath, <<".", "j", "s">>)
    THEN 2
  ELSE 1

\* extractComponentContext(filePath, projectRoot); path.relative is computed
\* for absolute POSIX paths without '.' or '..' segments
extractComponentContext(filePath, root) ==
  IF ~Truthy(filePath) \/ ~Truthy(root) THEN <<>>
  ELSE
    LET COMMON_SOURCE_DIRS ==
          { <<"s", "r", "c">>, <<"a", "p", "p">>, <<"l", "i", "b">>,
            <<"u", "t", "i", "l", "s">>, <<"a", "t", "o", "m", "s">>, <<"u", "i">>,
            <<"c", "o", "m", "m", "o", "n">>, <<"s", "h", "a", "r", "e", "d">>,
            <<"c", "o", "m", "p", "o", "n", "e", "n", "t", "s">>,
            <<"s", "e", "c", "t", "i", "o", "n", "s">>, <<"f", "o", "r", "m", "s">>,
            <<"c", "o", "n", "t", "a", "i", "n", "e", "r", "s">>,
            <<"l", "a", "y", "o", "u", "t", "s">>,
            <<"t", "e", "m", "p", "l", "a", "t", "e", "s">>, <<"v", "i", "e", "w", "s">>,
            <<"s", "c", "r", "e", "e", "n", "s">>, <<"p", "a", "g", "e", "s">> }
        Segments(p) == SelectSeq(Split(p, {"/"}), LAMBDA x : x # <<>>)
        Relative(r, f) ==
          LET shorter == IF Len(r) < Len(f) THEN Len(r) ELSE Len(f)
              common == CHOOSE k \in 0..shorter :
                          /\ SubSeq(r, 1, k) = SubSeq(f, 1, k)
                          /\ k < shorter => r[k + 1] # f[k + 1]
          IN  [i \in 1..(Len(r) - common) |-> <<".", ".">>]
                \o SubSeq(f, common + 1, Len(f))
        Context(pathParts) ==
          LET n == Len(pathParts)
              at == SelectSeq([j \in 1..(n - 1) |-> j],
                      LAMBDA j : /\ ToLowerCase(pathParts[j]) \in COMMON_SOURCE_DIRS
                                 /\ j < n - 1)
              context == [k \in 1..Len(at) |-> pathParts[at[k] + 1]]
          IN  IF context = <<>> /\ n > 1 THEN <<pathParts[n - 1]>> ELSE context
        Parts(relative) == IF relative = <<>> THEN << <<>> >> ELSE relative
    IN  Context(Parts(Relative(Segments(root), Segments(filePath))))

\* candidates.sort((a, b) => (b.priority || 0) - (a.priority || 0)): the
\* sort is stable
SortedInsertionOrder(candidates) == candidates

SortedByPriority(candidates) ==
  SelectSeq(candidates, LAMBDA c : c.priority = 3)
    \o SelectSeq(candidates, LAMBDA c : c.priority = 2)
    \o SelectSeq(candidates, LAMBDA c : c.priority = 1)
    \o SelectSeq(candidates, LAMBDA c : c.priority = 0)

\* findComponentFile(componentName, hierarchy, sources): the path returned
\* (Null for null) and the Source Map as the call leaves it, the list it
\* sorted in place included.  A candidate is [path, context, priority] and
\* the position `added` it was pushed at.
findComponentFile(componentName, hierarchy, src) ==
  IF ~Truthy(componentName) \/ ~MapHas(src, componentName)
    THEN [path |-> Null, sources |-> src]
  ELSE
    LET Find(candidates) ==
          LET at == {i \in 1..Len(hierarchy) : hierarchy[i] = componentName}
              componentIndex == IF at = {} THEN 0
                                ELSE CHOOSE i \in at : \A j \in at : i <= j
              parentComponent == IF componentIndex > 1 THEN hierarchy[componentIndex - 1]
                                 ELSE Null
              matching ==
                {i \in 1..Len(candidates) :
                   \/ ArrayIncludes(candidates[i].context, parentComponent)
                   \/ \E k \in 1..Len(candidates[i].context) :
                        ToLowerCase(candidates[i].context[k]) = ToLowerCase(parentComponent)}
          IN  IF candidates = <<>> THEN [path |-> Null, sources |-> src]
              ELSE IF Len(candidates) = 1
                THEN [path |-> candidates[1].path, sources |-> src]
              ELSE IF Truthy(parentComponent) /\ matching # {}
                THEN [path |-> candidates[CHOOSE i \in matching :
                                            \A j \in matching : i <= j].path,
                      sources |-> src]
              ELSE [path |-> SortedByPriority(candidates)[1].path,
                    sources |-> MapPut(src, componentName, SortedByPriority(candidates))]
    IN  Find(MapGet(src, componentName))

\* the candidate pushed for a file at position `added` of its list
Candidate(path, added) ==
  [path |-> path, context |-> extractComponentContext(path, Paths.app),
   priority |-> getFilePriority(path), added |-> added]

\* buildSourceMap(): the Source Map that replaces `src`, built from the
\* files scanSourceFiles lists
buildSourceMapKeeping(files, src) == src

buildSourceMap(files, src) ==
  LET RECURSIVE Pushes(_)
      Pushes(i) ==
        IF i > Len(files) THEN <<>>
        ELSE LET Of(componentNames) ==
                   [k \in 1..Len(componentNames) |->
                      [name |-> componentNames[k], path |-> files[i].path]]
             IN  Of(extractComponentNames(files[i])) \o Pushes(i + 1)
      Mappings(pushes) ==
        { <<name,
            LET mine == SelectSeq(pushes, LAMBDA p : p.name = name)
            IN  [k \in 1..Len(mine) |-> Candidate(mine[k].path, k)]>> :
          name \in {pushes[k].name : k \in 1..Len(pushes)} }
  IN  Mappings(Pushes(1))

\* structure.split(' -> ').map(name => name.trim())
Hierarchy(structure) ==
  LET RECURSIVE SplitOn(_, _)
      SplitOn(i, cur) ==
        IF i > Len(structure) THEN <<cur>>
        ELSE IF /\ i + Len(Literals.arrow) - 1 <= Len(structure)
                /\ SubSeq(structure, i, i + Len(Literals.arrow) - 1) = Literals.arrow
          THEN <<cur>> \o SplitOn(i + Len(Literals.arrow), <<>>)
        ELSE SplitOn(i + 1, Append(cur, structure[i]))
      Trim(s) ==
        LET inked == {i \in 1..Len(s) : s[i] # " "}
        IN  IF inked = {} THEN <<>>
            ELSE SubSeq(s, CHOOSE i \in inked : \A j \in inked : i <= j,
                           CHOOSE i \in inked : \A j \in inked : i >= j)
      Trimmed(parts) == [k \in 1..Len(parts) |-> Trim(parts[k])]
  IN  Trimmed(SplitOn(1, <<>>))

\* the loop of the 'xray-react-component' handler over componentNames from
\* position i: the files handed to openFile, the Source Map it leaves and
\* the calls of findComponentFile it made
RECURSIVE ResolveLoopAll(_, _, _, _, _)
ResolveLoopAll(componentNames, i, hierarchy, src, done) ==
  IF i > Len(componentNames) THEN done
  ELSE
    LET Step(r) ==
          ResolveLoopAll(componentNames, i + 1, hierarchy, r.sources,
            [opened |-> IF Truthy(r.path) /\ \E f \in Elems(fileSystem) : f.path = r.path
                          THEN Append(done.opened, r.path) ELSE done.opened,
             sources |-> r.sources,
             tried |-> Append(done.tried, [name |-> componentNames[i], path |-> r.path])])
    IN  Step(findComponentFile(componentNames[i], hierarchy, src))

RECURSIVE ResolveLoop(_, _, _, _, _)
ResolveLoop(componentNames, i, hierarchy, src, done) ==
  IF i > Len(componentNames) THEN done
  ELSE
    LET Step(r) ==
          IF Truthy(r.path) /\ \E f \in Elems(fileSystem) : f.path = r.path
            THEN [opened |-> <<r.path>>, sources |-> r.sources,
                  tried |-> Append(done.tried, [name |-> componentNames[i], path |-> r.path])]
          ELSE ResolveLoop(componentNames, i + 1, hierarchy, r.sources,
                 [opened |-> <<>>, sources |-> r.sources,
                  tried |-> Append(done.tried,
                                   [name |-> componentNames[i], path |-> r.path])])
    IN  Step(findComponentFile(componentNames[i], hierarchy, src))

\* the 'xray-react-component' handler (server.js 193-210, vite.js 79-93);
\* `opened` holds the files the request handed to openFile
XrayReactComponent(structure) ==
  \E r \in {IF structure = <<>>
              THEN [opened |-> <<>>, sources |-> sources, tried |-> <<>>]
            ELSE ResolveLoop(Reverse(Hierarchy(structure)), 1, Hierarchy(structure),
                             sources, [opened |-> <<>>, sources |-> sources,
                                       tried |-> <<>>])} :
    /\ opened' = r.opened
    /\ sources' = r.sources
    /\ last' = [op |-> "xray-react-component", arg |-> structure, tried |-> r.tried,
                before |-> sources]
    /\ UNCHANGED << configVars, normalizePathCache, window, objectVars, fileSystem,
                    overlayVars >>

\* the 'register-source' handler
RegisterSource(data) ==
  /\ MapHas(sources, data.name) => Len(MapGet(sources, data.name)) < MaxCandidates
  /\ sources' =
       IF Truthy(data.name) /\ Truthy(data.path)
         THEN MapPut(sources, data.name,
                IF MapHas(sources, data.name)
                  THEN Append(MapGet(sources, data.name),
                              Candidate(data.path, Len(MapGet(sources, data.name)) + 1))
                ELSE <<Candidate(data.path, 1)>>)
       ELSE sources
  /\ last' = [op |-> "register-source", arg |-> data]
  /\ UNCHANGED << configVars, normalizePathCache, window, objectVars, fileSystem,
                  opened, overlayVars >>

\* the 'rebuild-source-map' handler
RebuildSourceMap ==
  /\ sources' = buildSourceMap(fileSystem, sources)
  /\ last' = [op |-> "rebuild-source-map", count |-> Cardinality(MapKeys(sources')),
              before |-> sources]
  /\ UNCHANGED << configVars, normalizePathCache, window, objectVars, fileSystem,
                  opened, overlayVars >>

\* files are written, removed or renamed under the source path
FileSystemChange(files) ==
  /\ files # fileSystem
  /\ fileSystem' = files
  /\ last' = [op |-> "write"]
  /\ UNCHANGED << configVars, normalizePathCache, window, objectVars, sources,
                  opened, overlayVars >>

\* the server once started: buildSourceMap() has run (server.js 173)
InitServer ==
  /\ OverlayOff
  /\ window = NoWindow
  /\ Loaded
  /\ devtoolsHook = TRUE
  /\ domElem = NoElem
  /\ xrayReactElem = NoOverlay
  /\ sourceFile = NoSourceFile
  /\ fileSystem \in Inputs.Disks
  /\ sources = buildSourceMap(fileSystem, {})
  /\ opened = <<>>
  /\ last = [op |-> "listen"]

NextServer ==
  \/ \E structure \in Inputs.Structures : XrayReactComponent(structure)
  \/ \E data \in Inputs.Registrations : RegisterSource(data)
  \/ RebuildSourceMap
  \/ \E files \in Inputs.Disks : FileSystemChange(files)

SpecServer == InitServer /\ [][NextServer]_vars

(***************************************************************************)
(* Properties of the companion server (specification SpecServer).          *)
(***************************************************************************)
\* the hierarchies findComponentFile is called with, and the names resolved
Hierarchies == {Hierarchy(structure) : structure \in Inputs.Structures \ {<<>>}}

\* the candidates of a name in the Source Map
CandidatesOf(name) == IF MapHas(sources, name) THEN MapGet(sources, name) ELSE <<>>

\* the context list contains the name p, compared exactly or ignoring case
ContextHas(candidate, p) ==
  \E k \in 1..Len(candidate.context) :
    ToLowerCase(candidate.context[k]) = ToLowerCase(p)

\* the names that immediately precede an occurrence of `name` in `hierarchy`
Predecessors(name, hierarchy) ==
  {hierarchy[i - 1] : i \in {j \in 2..Len(hierarchy) : hierarchy[j] = name}}

\* C12: when a name has two or more candidates and has an immediate
\* predecessor P in the hierarchy, and some candidate's context list
\* contains P (exactly or ignoring case), findComponentFile returns the
\* path of a candidate whose context list contains P.
C12_PredecessorContextWins ==
  \A hierarchy \in Hierarchies :
    \A name \in Elems(hierarchy) :
      \A p \in Predecessors(name, hierarchy) :
        (/\ Len(CandidatesOf(name)) >= 2
         /\ \E i \in 1..Len(CandidatesOf(name)) : ContextHas(CandidatesOf(name)[i], p))
        => \E i \in 1..Len(CandidatesOf(name)) :
             /\ ContextHas(CandidatesOf(name)[i], p)
             /\ findComponentFile(name, hierarchy, sources).path
                  = CandidatesOf(name)[i].path

\* the candidate of the highest priority, and among those the one added
\* first
Best(candidates) ==
  candidates[CHOOSE i \in 1..Len(candidates) :
               \A j \in 1..Len(candidates) :
                 \/ candidates[j].priority < candidates[i].priority
                 \/ /\ candidates[j].priority = candidates[i].priority
                    /\ candidates[i].added <= candidates[j].added]

\* no candidate's context contains a predecessor of the name
NoContextMatch(name, hierarchy, candidates) ==
  \A p \in Predecessors(name, hierarchy) :
    \A i \in 1..Len(candidates) : ~ContextHas(candidates[i], p)

\* C13: with two or more candidates of which none has a context containing
\* the name's predecessor (or when the name has no predecessor),
\* findComponentFile returns the candidate of the highest priority, and
\* among those of equal highest priority the one added first; with no
\* candidate it returns none, with exactly one it returns that one.
C13_HighestPriorityFirstAdded ==
  \A hierarchy \in Hierarchies :
    \A name \in Elems(hierarchy) \cup {Names.Tooltip} :
      /\ CandidatesOf(name) = <<>> =>
           findComponentFile(name, hierarchy, sources).path = Null
      /\ Len(CandidatesOf(name)) = 1 =>
           findComponentFile(name, hierarchy, sources).path = CandidatesOf(name)[1].path
      /\ (Len(CandidatesOf(name)) >= 2 /\ NoContextMatch(name, hierarchy, CandidatesOf(name)))
           => findComponentFile(name, hierarchy, sources).path
                = Best(CandidatesOf(name)).path

\* a request resolved its leaf, which had several candidates of the highest
\* priority and none with a matching context, to the one added first, which
\* the list did not hold first
C13_Witness ==
  /\ last.op = "xray-react-component"
  /\ last.tried # <<>>
  /\ MapHas(last.before, last.tried[1].name)
  /\ \E candidates \in {MapGet(last.before, last.tried[1].name)} :
       /\ Len(candidates) >= 2
       /\ NoContextMatch(last.tried[1].name, Hierarchy(last.arg), candidates)
       /\ \E i, j \in 1..Len(candidates) :
            /\ i # j
            /\ candidates[i] = Best(candidates)
            /\ candidates[j].priority = candidates[i].priority
       /\ candidates[1] # Best(candidates)
       /\ last.tried[1].path = Best(candidates).path

\* the name is tried, and the path resolved for it exists
Resolved(try) == Truthy(try.path) /\ \E f \in Elems(fileSystem) : f.path = try.path

\* C14: a file-resolution request splits the path on the arrow separator,
\* trims the names and tries them leaf first; it opens the file resolved
\* for the first name, in that order, whose resolved path exists, and no
\* other; when no name resolves to an existing path it opens nothing.
C14_OpensFirstExisting ==
  last.op = "xray-react-component" =>
    /\ Len(opened) <= 1
    /\ \A k \in 1..Len(last.tried) :
         /\ last.tried[k].name = Reverse(Hierarchy(last.arg))[k]
         /\ last.tried[k].name # <<>> =>
              /\ Head(last.tried[k].name) # " "
              /\ last.tried[k].name[Len(last.tried[k].name)] # " "
              /\ ~Includes(last.tried[k].name, Literals.arrow)
         /\ last.tried[k].path
              = findComponentFile(last.tried[k].name, Hierarchy(last.arg), last.before).path
         /\ k < Len(last.tried) => ~Resolved(last.tried[k])
    /\ opened # <<>> =>
         /\ Resolved(last.tried[Len(last.tried)])
         /\ opened = <<last.tried[Len(last.tried)].path>>
    /\ opened = <<>> =>
         /\ last.arg # <<>> => Len(last.tried) = Len(Hierarchy(last.arg))
         /\ \A k \in 1..Len(last.tried) : ~Resolved(last.tried[k])

\* a request whose leaf resolved to no existing file opened the file of an
\* ancestor
C14_Witness ==
  /\ last.op = "xray-react-component"
  /\ Len(last.tried) >= 2
  /\ opened # <<>>

InitUsage ==
  /\ ServerDown
  /\ OverlayOff
  /\ window = NoWindow
  /\ Loaded
  /\ devtoolsHook = TRUE
  /\ domElem = NoElem
  /\ xrayReactElem = NoOverlay
  /\ sourceFile \in Inputs.UsageFiles
  /\ last = [op |-> "load"]

\* extractJSXUsageFromFile(filePath) on the source file
ExtractJSXUsage ==
  /\ last' = [op |-> "extractJSXUsageFromFile", result |-> extractJSXUsageFromFile(sourceFile)]
  /\ UNCHANGED << configVars, normalizePathCache, window, objectVars, serverVars, overlayVars >>

\* extractImportsFromFile(filePath) on the source file
ExtractImports ==
  /\ last' = [op |-> "extractImportsFromFile", result |-> extractImportsFromFile(sourceFile)]
  /\ UNCHANGED << configVars, normalizePathCache, window, objectVars, serverVars, overlayVars >>

NextUsage == ExtractJSXUsage \/ ExtractImports

SpecUsage == InitUsage /\ [][NextUsage]_vars

(***************************************************************************)
(* Properties of usage mode and import mode (specification SpecUsage).     *)
(***************************************************************************)
\* the source file is one the extractor reads
Scanned == sourceFile.readable /\ ~shouldExcludeFile(sourceFile.path)

\* the text of the source file holds the statement
Holds(statement) == Includes(sourceFile.content, statement)

\* <Foo.Bar />
NamespacedTag == <<<<"<", "F", "o", "o", ".", "B", "a", "r">>, <<"/", ">">>>>

\* <div>
MarkupTag == <<<<"<", "d", "i", "v", ">">>>>

\* import { Foo as Bar } from "x"
AliasedImport == <<<<"i", "m", "p", "o", "r", "t">>, <<"{">>, <<"F", "o", "o">>, <<"a", "s">>, <<"B", "a", "r">>, <<"}">>, <<"f", "r", "o", "m">>, <<"\"", "x", "\"">>>>

\* import Card , { Foo as Bar , Modal } from "x"
AliasedMixedImport == <<<<"i", "m", "p", "o", "r", "t">>, <<"C", "a", "r", "d">>, <<",">>, <<"{">>, <<"F", "o", "o">>, <<"a", "s">>, <<"B", "a", "r">>, <<",">>, <<"M", "o", "d", "a", "l">>, <<"}">>, <<"f", "r", "o", "m">>, <<"\"", "x", "\"">>>>

\* import { div as Box } from "x"
AliasedMarkupImport == <<<<"i", "m", "p", "o", "r", "t">>, <<"{">>, <<"d", "i", "v">>, <<"a", "s">>, <<"B", "o", "x">>, <<"}">>, <<"f", "r", "o", "m">>, <<"\"", "x", "\"">>>>

\* C16: usage-mode extraction of a namespaced tag returns only the trailing
\* segment: for a text that holds <Foo.Bar /> and <div> the result is
\* exactly {Bar}; neither the namespace Foo nor the markup tag div is in it.
C16_TrailingSegmentOnly ==
  (/\ last.op = "extractJSXUsageFromFile"
   /\ Scanned
   /\ Holds(NamespacedTag) /\ Holds(MarkupTag))
    => last.result = {Names.Bar}

\* C17 as stated: import extraction resolves an aliased named import to the
\* local binding name: for import { Foo as Bar } from "x" the result holds
\* Bar and not Foo.
C17_Original ==
  (/\ last.op = "extractImportsFromFile"
   /\ Scanned
   /\ sourceFile.content = AliasedImport)
    => Names.Bar \in last.result /\ Names.Foo \notin last.result

\* C17: import extraction resolves an aliased named import to the exported
\* name: for import { Foo as Bar } from "x" the result holds Foo and not
\* Bar, and so it does for the aliased entry of a list that follows a
\* default import; an exported name that shouldExcludeName rejects is left
\* out, and its alias is not taken in its place.
C17_ExportedName ==
  /\ (/\ last.op = "extractImportsFromFile"
      /\ Scanned
      /\ Holds(AliasedImport) \/ Holds(AliasedMixedImport))
       => Names.Foo \in last.result /\ Names.Bar \notin last.result
  /\ (/\ last.op = "extractImportsFromFile"
      /\ Scanned
      /\ sourceFile.content = AliasedMarkupImport)
       => last.result = {}

C17_Witness ==
  /\ last.op = "extractImportsFromFile"
  /\ Scanned
  /\ sourceFile.content = AliasedImport
  /\ last.result = {Names.Foo}

(***************************************************************************)
(* Properties of the keyboard shortcuts (specification SpecOverlay).       *)
(***************************************************************************)
\* the key the keydown handler handled last
Key(key) == last.op = "keydown" /\ last.arg = key

\* C21: Escape turns the overlay off when it is on and does nothing when it
\* is off, so the overlay is off after every Escape keydown; the shortcut
\* turns it on when it was off and off when it was on; and the overlay
\* goes from off to on only by the shortcut.
C21_EscapeOnlyTurnsOff ==
  [][ /\ (last'.op = "keydown" /\ last'.arg = "Escape") => ~document'.enabled
      /\ (last'.op = "keydown" /\ last'.arg = "shortcut")
           => document'.enabled = ~last'.enabled
      /\ (~document.enabled /\ document'.enabled)
           => (last'.op = "keydown" /\ last'.arg = "shortcut") ]_vars

\* Escape came while the overlay was on
C21_Witness == Key("Escape") /\ last.enabled /\ ~document.enabled

(***************************************************************************)
(* Properties of the batches of an activation (specification SpecOverlay). *)
(***************************************************************************)
\* the pending callbacks of processElementsAsync
Batches == {t \in timers : t.kind \in {"processBatch", "processPaths"}}

\* the overlay elements of the overlay objects, without the structures
\* addAbsoluteComponentPath sets
Bare(elems) ==
  [i \in 1..Len(elems) |-> [elems[i] EXCEPT !.path = Null, !.filteredPath = Null]]

Overlays(objects) == [i \in 1..Len(objects) |-> objects[i].xrayReactElem]

\* the overlay elements of activation act attached to wrapper w
Attached(w, act) == SelectSeq(w.children, LAMBDA c : c.act = act)

\* between two batches: the elements before `index`, and no others, were
\* each handled once, in order, and `index` is a multiple of the batch
\* size until all are handled; no path is built before that; then the
\* objects before `pathIndex`, and no others, were each given their
\* structures once, in order
AtBatchBoundary(t) ==
  /\ t.index \in 0..Len(document.body)
  /\ t.index % batchSize = 0 \/ t.index = Len(document.body)
  /\ t.handled = [i \in 1..t.index |-> i]
  /\ \A i \in 1..Len(t.xrayReactObjects) :
       t.xrayReactObjects[i].elem \in Elems(SubSeq(document.body, 1, t.index))
  /\ t.kind = "processBatch" => t.pathIndex = 0
  /\ t.kind = "processPaths" => t.index = Len(document.body)
  /\ t.pathIndex \in 0..Len(t.xrayReactObjects)
  /\ t.pathIndex % pathBatchSize = 0 \/ t.pathIndex = Len(t.xrayReactObjects)
  /\ t.pathsBuilt = [i \in 1..t.pathIndex |-> i]
  /\ \A i \in 1..Len(t.xrayReactObjects) :
       Truthy(t.xrayReactObjects[i].xrayReactElem.path) <=> i <= t.pathIndex

\* C26: within one activation the page elements are handled once each, in
\* order, at most batchSize per batch; paths are built only after the last
\* element batch, once per overlay object, at most pathBatchSize per
\* batch; every reachable state lies between two batches; and the overlay
\* elements of the activation are attached in one step, by the last path
\* batch and not before.
C26_Batches ==
  /\ [](\A t \in Batches : AtBatchBoundary(t))
  /\ [](\A t \in Batches : \A w \in document.wrapper : Attached(w, t.act) = <<>>)
  /\ [][ /\ \A t \in Batches : \A u \in Batches' :
               u.act = t.act =>
                 /\ u.index - t.index \in 0..batchSize
                 /\ u.pathIndex - t.pathIndex \in 0..pathBatchSize
                 /\ u.pathIndex # t.pathIndex => t.index = Len(document.body)
         /\ \A w \in document.wrapper : \A u \in document'.wrapper :
               \A act \in 1..document.created :
                 (u.id = w.id /\ Attached(u, act) # Attached(w, act)) =>
                   /\ Attached(w, act) = <<>>
                   /\ \A v \in Batches' : v.act # act
                   /\ \E t \in Batches :
                        /\ t.act = act /\ t.kind = "processPaths"
                        /\ Len(t.handled) = Len(document.body)
                        /\ Bare(Attached(u, act)) = Bare(Overlays(t.xrayReactObjects))
                        /\ \A i \in 1..Len(Attached(u, act)) :
                             Truthy(Attached(u, act)[i].path) ]_vars

\* an activation on a page of more than batchSize elements was attached
\* after two element batches and three path batches
C26_Witness ==
  /\ Len(document.body) > batchSize
  /\ \E w \in document.wrapper :
       /\ ~w.temp
       /\ Len(Attached(w, w.id)) > 2 * pathBatchSize

\* activation act has no callback pending, and the wrapper has no loading
\* element and holds overlay elements of act only with their structures
Finished(act) ==
  /\ \A t \in Batches : t.act # act
  /\ \A w \in document.wrapper :
       /\ ~w.temp
       /\ \A i \in 1..Len(Attached(w, act)) : Truthy(Attached(w, act)[i].path)

\* the callbacks of activation act go away only in the step of its last
\* path batch, after every element was handled, which builds the last
\* paths, removes the loading element and attaches the overlay element of
\* every object collected
EndsByAttaching(act) ==
  \A t \in Batches :
    (t.act = act /\ \A u \in Batches' : u.act # act) =>
      /\ t.kind = "processPaths"
      /\ t.handled = [i \in 1..Len(document.body) |-> i]
      /\ Len(t.xrayReactObjects) - t.pathIndex <= pathBatchSize
      /\ \A w \in document'.wrapper :
           /\ ~w.temp
           /\ Bare(Attached(w, act)) = Bare(Overlays(t.xrayReactObjects))
           /\ \A i \in 1..Len(Attached(w, act)) : Truthy(Attached(w, act)[i].path)

\* C28: when the overlay is toggled on and not toggled again, and the
\* callbacks scheduled with setTimeout eventually run, the activation
\* finishes, whatever the number of page elements: every element is
\* handled, every path is built, the loading element is removed and the
\* overlay elements are attached to the wrapper; nothing ends an activation
\* before that.
C28_ActivationFinishes ==
  /\ \A act \in 1..MaxActivations :
       (document.created = act /\ document.enabled)
         ~> (ToggledOff(act) \/ Finished(act))
  /\ [][\A act \in 1..MaxActivations : EndsByAttaching(act)]_vars

\* the activation of a page of more than two path batches has finished,
\* and so has one of a page without elements
C28_Witness ==
  /\ document.enabled
  /\ Finished(document.created)
  /\ \E w \in document.wrapper :
       Len(Attached(w, document.created)) > 2 * pathBatchSize

(***************************************************************************)
(* Further properties of the companion server (specification SpecServer).  *)
(***************************************************************************)
\* the Source Map is the one a scan has just built
Scan == last.op \in {"listen", "rebuild-source-map"}

\* the paths of the candidates the Source Map holds for the name
PathsOf(name) ==
  IF MapHas(sources, name)
    THEN {MapGet(sources, name)[k].path : k \in 1..Len(MapGet(sources, name))}
  ELSE {}

Owned ==
  ProjectOwnedLoop(NotLeafNorMarkup(last.components, last.currentComponentName), 1,
                   [seenComponents |-> {}, projectOwnedComponents |-> <<>>,
                    cache |-> {}]).projectOwnedComponents

\* the names of a structure string
NamesIn(structure) == Hierarchy(structure)

Corroborated(comp) ==
  \/ Truthy(comp.file) /\ NameMatchesFile(ToLowerCase(comp.name), comp.file)
  \/ MapHas(componentNameToFilesIndex, ToLowerCase(comp.name))

\* the observations of the list that have the name
Observed(name) == {comp \in Elems(last.components) : comp.name = name}

C24_Dropped ==
  /\ Built
  /\ \E comp \in Elems(NotLeafNorMarkup(last.components, last.currentComponentName)) :
       /\ comp.isInternal /\ Truthy(comp.file) /\ ~Corroborated(comp)
       /\ comp.name \notin Elems(last.filteredNames)

\* C25: both structures end with the leaf name, for every observation list
\* and every leaf name.
C25_LeafLast ==
  Built =>
    /\ last.fullNames[Len(last.fullNames)] = last.currentComponentName
    /\ last.filteredNames[Len(last.filteredNames)] = last.currentComponentName

\* the full structure ends with the leaf name
C25_FullLeafLast ==
  Built => last.fullNames[Len(last.fullNames)] = last.currentComponentName

\* the filtered structure ends with the leaf name when no other name of it
\* equals the leaf name ignoring case
C25_FilteredLeafLast ==
  (Built /\ \A i \in 1..(Len(last.filteredNames) - 1) :
              ToLowerCase(last.filteredNames[i]) # ToLowerCase(last.currentComponentName))
    => ToLowerCase(last.filteredNames[Len(last.filteredNames)])
         = ToLowerCase(last.currentComponentName)

\* the leaf name stands in the filtered structure before another name
C25_LeafNotLast ==
  /\ Built
  /\ Len(last.filteredNames) = 2
  /\ last.filteredNames[1] = last.currentComponentName
  /\ last.filteredNames[2] # last.currentComponentName
  /\ last.fullNames = Append(last.filteredNames, last.currentComponentName)
(***************************************************************************)
(* The Project File Index after the file list is supplied again            *)
(* (specification SpecConfig).                                             *)
(***************************************************************************)
\* the tokens a file path is found under: its file name without a source
\* extension, and its directories of more than one character
TokensOf(filePath) ==
  LET parts == Split(normalizePathCompute(filePath), {"/"})
      name  == StripSourceExt(parts[Len(parts)])
  IN  (IF name # <<>> THEN {name} ELSE {})
        \cup {parts[i] : i \in {j \in 1..(Len(parts) - 1) : Len(parts[j]) > 1}}

\* the index holds exactly the normalized paths and the tokens of fileList
IndexOf(fileList) ==
  /\ normalizedProjectFilePaths = {normalizePathCompute(f) : f \in Elems(fileList)}
  /\ componentNameToFilesIndex =
       { <<t, {f \in Elems(fileList) : t \in TokensOf(f)}>> :
           t \in UNION {TokensOf(f) : f \in Elems(fileList)} }

\* a setUsageMap or setImportMap step leaves the index as it is
MapCallsKeepIndex ==
  last'.op \in {"setUsageMap", "setImportMap"} =>
    UNCHANGED << normalizedProjectFilePaths, componentNameToFilesIndex >>

\* C27 as stated: after setProjectFiles(F) the normalized path set and the
\* token index hold exactly the paths and the file-name and directory
\* tokens derived from F, nothing of an earlier list, and setUsageMap and
\* setImportMap do not change the index.
C27_Original ==
  /\ [](last.op = "setProjectFiles" => IndexOf(SuppliedList(last.arg)))
  /\ [][MapCallsKeepIndex]_vars

\* C27, amended: after setProjectFiles(F) the normalized path set and the
\* token index hold exactly the paths and the file-name and directory
\* tokens derived from F, or from the list of the window global
\* __XRAY_REACT_PROJECT_FILES__ when F is empty or null and that global is
\* defined; nothing of an earlier list remains, and setUsageMap and
\* setImportMap do not change the index.
C27_IndexOfListOrGlobal ==
  /\ [](last.op = "setProjectFiles" =>
          IndexOf(OrGlobal(SuppliedList(last.arg), <<>>, window.projectFiles)))
  /\ [][MapCallsKeepIndex]_vars

\* a second list was supplied after one that held /app/src/modal/index.ts
\* (the memo of normalizePath still knows that path): the tokens of the
\* first list are gone, and 'card' leads to the file of the second list only
C27_Witness ==
  /\ last.op = "setProjectFiles"
  /\ last.arg = {<<Paths.CardNav, Paths.a>>}
  /\ MapHas(normalizePathCache, Paths.Modal)
  /\ ~MapHas(componentNameToFilesIndex, <<"m", "o", "d", "a", "l">>)
  /\ MapGet(componentNameToFilesIndex, <<"c", "a", "r", "d">>) = {Paths.CardNav}
  /\ MapGet(componentNameToFilesIndex, <<"a">>) = {Paths.a}
  /\ ~MapHas(componentNameToFilesIndex, <<"/">>)
(***************************************************************************)
(* Resolutions and the Source Map (specification SpecServer).              *)
(***************************************************************************)
\* the Source Map as the scans and register-source events built it: every
\* candidate list in the order its candidates were pushed
AsAdded(src) ==
  { <<e[1], [k \in 1..Len(e[2]) |->
               e[2][CHOOSE i \in 1..Len(e[2]) : e[2][i].added = k]]>> : e \in src }

\* a file-resolution request leaves the Source Map as it found it
ResolutionKeepsSourceMap ==
  [][last'.op = "xray-react-component" => sources' = sources]_vars

\* every path a request resolved is the one findComponentFile returns on
\* the Source Map as it was built
ResolvedAsBuilt ==
  last.op = "xray-react-component" =>
    \A k \in 1..Len(last.tried) :
      last.tried[k].path
        = findComponentFile(last.tried[k].name, Hierarchy(last.arg),
                            AsAdded(last.before)).path

\* C29 as stated: a resolution leaves the Source Map unchanged, the order
\* of every candidate list included, and the path returned for a name and a
\* hierarchy depends only on the entries scans and register-source events
\* added, not on the resolutions made before.
C29_ResolutionLeavesSourceMap ==
  /\ ResolutionKeepsSourceMap
  /\ []ResolvedAsBuilt
(***************************************************************************)
(* Configured and detected project roots (specification SpecRoot).         *)
(***************************************************************************)
\* the step is a run of the deferred detection
DetectionStep == last'.op = "detectProjectRootFromDOM" /\ timers' # timers

\* C30: a project root inferred from the DOM never replaces a configured
\* one: in every interleaving of enableXrayReact, the deferred detection
\* and setProjectRoot calls, while the most recent setProjectRoot call
\* stored a non-empty root the project root is that root, and a run of the
\* detection changes the project root only when none is set.
C30_ConfiguredRootWins ==
  /\ [](\A rootPath \in Configured :
          Truthy(StoredRoot(rootPath)) => projectRoot = StoredRoot(rootPath))
  /\ [][(DetectionStep /\ projectRoot' # projectRoot) => ~Truthy(projectRoot)]_vars

\* the detection ran on a page whose fibers name project files, after
\* setProjectRoot('/app') and while another detection was still pending,
\* and the root is the configured one
C30_Witness ==
  /\ last.op = "detectProjectRootFromDOM"
  /\ last.configured = {Paths.app}
  /\ Truthy(DetectedRoot(document.body, {}).value)
  /\ projectRoot = StoredRoot(Paths.app)
  /\ timers # {}

\* the detection ran on a page without a project root and set the one the
\* fibers give, which setProjectRoot('/app') then replaced
C30_Detected ==
  /\ last.op = "setProjectRoot"
  /\ last.arg = Paths.app
  /\ projectRoot = StoredRoot(Paths.app)
  /\ MapHas(normalizePathCache, Paths.Card)
====
